---- MODULE Spec2Model ----
(***************************************************************************)
(* Model of the netmap routing and topology engine (src/netmap):           *)
(* the entity store with its validation rules (models.py), the ingestion   *)
(* service and the routing service (services.py).                          *)
(*                                                                         *)
(* An IPv4 address is the pair <<hi, lo>> of its two 16-bit halves, so     *)
(* that the full 32-bit width is kept.  Python integers are unbounded: a   *)
(* pair whose hi half is above 65535 is an integer above 2^32 - 1, which   *)
(* ipaddress.ip_address() turns into an IPv6 address; a pair whose hi half *)
(* is negative is a negative integer, for which it raises ValueError.      *)
(* A textual "IP or network" is the record [addr, len, slash]: slash says  *)
(* whether the text has a '/', addr is the address as written (host bits   *)
(* included) and len the prefix length as written.                         *)
(***************************************************************************)
EXTENDS Integers, Sequences, FiniteSets, TLC

VARIABLES
    devices,                    \* Device table, in primary-key order
    interfaces,                 \* Interface table, in primary-key order
    routes,                     \* Route table, in primary-key order
    nat_mappings,               \* NATMapping table, in primary-key order
    nextId,                     \* next primary key of each table
    lastOp,                     \* the last store write and its outcome
    pc,                         \* position of the find_route_path call
    source_ip_or_network,       \* argument of find_route_path
    destination_ip_or_network,  \* argument of find_route_path
    dest_net,                   \* dest_matches[0]
    current_device_id,          \* local of find_route_path
    visited_devices,            \* local of find_route_path, in insertion order
    current_ip_or_network,      \* local of find_route_path (working destination)
    result,                     \* the result dict of find_route_path
    natLookups,                 \* the find_nat_mapping calls made, in order
    routeLookups,               \* the (device, destination) route scans made, in order
    ret,                        \* the last direct call of a lookup and its return value
    firewall,                   \* the TestFirewall object: connected and its mock dicts
    firewall_ret                \* the last call on the connector and what it returned

storeVars == <<devices, interfaces, routes, nat_mappings, nextId, lastOp>>
callVars == <<pc, source_ip_or_network, destination_ip_or_network, dest_net,
              current_device_id, visited_devices, current_ip_or_network,
              result, natLookups, routeLookups, ret>>
firewallVars == <<firewall, firewall_ret>>
vars == <<devices, interfaces, routes, nat_mappings, nextId, lastOp,
          pc, source_ip_or_network, destination_ip_or_network, dest_net,
          current_device_id, visited_devices, current_ip_or_network,
          result, natLookups, routeLookups, ret, firewall, firewall_ret>>

(***************************************************************************)
(* Python values                                                           *)
(***************************************************************************)
\* Python None, for the optional values that are records or tuples
None == <<>>

\* Python None, for the optional value that is a string (a hop's next_hop)
NoName == "None"

\* the elements of a sequence
Range(s) == {s[i] : i \in 1..Len(s)}

(***************************************************************************)
(* ipaddress primitives                                                    *)
(***************************************************************************)
\* the address a.b.c.d
Addr(a, b, c, d) == <<a * 256 + b, c * 256 + d>>

\* the text of a single IP address
IPText(a) == [addr |-> a, len |-> 32, slash |-> FALSE]

\* the text "a/n" of a network
CidrText(a, n) == [addr |-> a, len |-> n, slash |-> TRUE]

\* ipaddress.ip_address(int): an IPv4 address when the integer fits 32 bits
IsV4(a) == a[1] >= 0 /\ a[1] <= 65535

\* ipaddress.ip_address(int) raises ValueError for a negative integer
IsNegative(a) == a[1] < 0

\* the top n bits of the 16-bit half h
MaskHalf(h, n) == h - (h % (2 ^ (16 - n)))

\* a & netmask(n)
MaskAddr(a, n) ==
    IF n <= 16 THEN <<MaskHalf(a[1], n), 0>>
    ELSE <<a[1], MaskHalf(a[2], n - 16)>>

\* a | hostmask(n)
FillAddr(a, n) ==
    IF n <= 16 THEN <<MaskHalf(a[1], n) + (2 ^ (16 - n)) - 1, 65535>>
    ELSE <<a[1], MaskHalf(a[2], n - 16) + (2 ^ (32 - n)) - 1>>

\* a <= b on addresses
AddrLeq(a, b) == a[1] < b[1] \/ (a[1] = b[1] /\ a[2] <= b[2])

\* ipaddress.ip_network(text, strict=False)
ip_network(t) == [network_address |-> MaskAddr(t.addr, t.len), prefixlen |-> t.len]

\* network.broadcast_address
broadcast_address(n) == FillAddr(n.network_address, n.prefixlen)

\* "ip in network": false when the address is not IPv4
InNetwork(a, n) == IsV4(a) /\ MaskAddr(a, n.prefixlen) = n.network_address

\* a.overlaps(b)
overlaps(a, b) ==
    \/ InNetwork(b.network_address, a)
    \/ InNetwork(broadcast_address(b), a)
    \/ InNetwork(a.network_address, b)
    \/ InNetwork(broadcast_address(a), b)

\* a.supernet_of(b)
supernet_of(a, b) ==
    /\ AddrLeq(a.network_address, b.network_address)
    /\ AddrLeq(broadcast_address(b), broadcast_address(a))

(***************************************************************************)
(* Entity store (models.py)                                                *)
(***************************************************************************)
\* Device.objects.filter(name=name).exists()
DeviceExists(name) == \E d \in Range(devices) : d.name = name

\* Device.objects.filter(pk=id).exists()
DeviceIdExists(id) == \E d \in Range(devices) : d.id = id

\* Device.objects.get(pk=id)
DeviceById(id) == CHOOSE d \in Range(devices) : d.id = id

\* Device.objects.get_or_create(name=name): the Device table afterwards
get_or_create_devices(name) ==
    IF DeviceExists(name) THEN devices
    ELSE Append(devices, [id |-> nextId.Device, name |-> name])

\* Device.objects.get_or_create(name=name): the primary key of the device
get_or_create_id(name) ==
    IF DeviceExists(name) THEN (CHOOSE d \in Range(devices) : d.name = name).id
    ELSE nextId.Device

\* nextId after Device.objects.get_or_create(name=name)
get_or_create_nextId(name) ==
    IF DeviceExists(name) THEN nextId
    ELSE [nextId EXCEPT !.Device = @ + 1]

\* Interface.clean without the containment test
Interface_clean_accepting(ip_address, network) == TRUE

\* Interface.clean: TRUE when it raises no ValidationError
Interface_clean(ip_address, network) == InNetwork(ip_address, ip_network(network))

\* Route.clean: TRUE when it raises no ValidationError
Route_clean(type, gateway_ip) ==
    /\ ~(type # "connected" /\ gateway_ip = None)
    /\ ~(type = "connected" /\ gateway_ip # None)

\* positions of the rows with the key of unique_device_interface_ip
InterfaceKeyRows(device_id, name, ip_address) ==
    {k \in 1..Len(interfaces) : /\ interfaces[k].device_id = device_id
                                /\ interfaces[k].name = name
                                /\ interfaces[k].ip_address = ip_address}

\* the lookup in which an absent gateway matches no row (gateway_ip = NULL)
RouteKeyRows_null_unmatched(device_id, destination_network, gateway_ip) ==
    {k \in 1..Len(routes) : /\ routes[k].source_device_id = device_id
                            /\ routes[k].destination_network = destination_network
                            /\ gateway_ip # None
                            /\ routes[k].gateway_ip = gateway_ip}

\* positions of the rows with the key of unique_device_route
RouteKeyRows(device_id, destination_network, gateway_ip) ==
    {k \in 1..Len(routes) : /\ routes[k].source_device_id = device_id
                            /\ routes[k].destination_network = destination_network
                            /\ routes[k].gateway_ip = gateway_ip}

(***************************************************************************)
(* Bounds and inputs of the store writes                                   *)
(***************************************************************************)
\* most Interface rows the writes build up
MaxInterfaces == 2

\* most Route rows the writes build up
MaxRoutes == 2

\* most rows the writes build up in the Interface and Route tables together
MaxRows == 3

DeviceNames == {"router1", "router2"}

InterfaceNames == {"eth0"}

\* 10.0.0.1, 192.168.1.1
WriteIPs == {Addr(10, 0, 0, 1), Addr(192, 168, 1, 1)}

\* 10.0.0.0/24 and 192.168.1.1/24 (host bits set, accepted by strict=False)
WriteNetworks == {CidrText(Addr(10, 0, 0, 0), 24), CidrText(Addr(192, 168, 1, 1), 24)}

Statuses == {"up", "down"}

\* 172.16.0.0/24
WriteDestinations == {CidrText(Addr(172, 16, 0, 0), 24)}

WriteGateways == {None, Addr(10, 0, 0, 2)}

RouteTypes == {"connected", "static"}

Metrics == {0, 10}

(***************************************************************************)
(* Store writes (models.py save(), services.py ingestion)                  *)
(***************************************************************************)
\* the bound on the tables leaves room for one more Interface row
RoomForInterface ==
    Len(interfaces) < MaxInterfaces /\ Len(interfaces) + Len(routes) < MaxRows

\* the bound on the tables leaves room for one more Route row
RoomForRoute ==
    Len(routes) < MaxRoutes /\ Len(interfaces) + Len(routes) < MaxRows

\* Interface.objects.create(device=..., ...): save() runs clean(), then the
\* INSERT checks unique_device_interface_ip
CreateInterface(device_id, name, ip_address, network, status) ==
    /\ pc = "idle"
    /\ DeviceIdExists(device_id)
    /\ RoomForInterface
    /\ IF ~Interface_clean(ip_address, network)
       THEN /\ lastOp' = [op |-> "Interface.create", outcome |-> "ValidationError"]
            /\ UNCHANGED <<interfaces, nextId>>
       ELSE IF InterfaceKeyRows(device_id, name, ip_address) # {}
       THEN /\ lastOp' = [op |-> "Interface.create", outcome |-> "IntegrityError"]
            /\ UNCHANGED <<interfaces, nextId>>
       ELSE /\ interfaces' = Append(interfaces,
                  [id |-> nextId.Interface, device_id |-> device_id, name |-> name,
                   ip_address |-> ip_address, network |-> network, status |-> status])
            /\ nextId' = [nextId EXCEPT !.Interface = @ + 1]
            /\ lastOp' = [op |-> "Interface.create", outcome |-> "ok"]
    /\ UNCHANGED <<devices, routes, nat_mappings>>
    /\ UNCHANGED callVars
    /\ UNCHANGED firewallVars

\* Interface.objects.update_or_create(device, name, ip_address, defaults):
\* the outcome and the Interface table afterwards; save() runs clean()
update_or_create_interface(device_id, name, ip_address, network, status) ==
    LET rows == InterfaceKeyRows(device_id, name, ip_address) IN
    IF ~Interface_clean(ip_address, network)
    THEN [outcome |-> "ValidationError", table |-> interfaces, created |-> FALSE]
    ELSE IF rows # {}
    THEN LET k == CHOOSE k \in rows : TRUE IN
         [outcome |-> "ok",
          table |-> [interfaces EXCEPT ![k].network = network, ![k].status = status],
          created |-> FALSE]
    ELSE [outcome |-> "ok",
          table |-> Append(interfaces,
                       [id |-> nextId.Interface, device_id |-> device_id,
                        name |-> name, ip_address |-> ip_address,
                        network |-> network, status |-> status]),
          created |-> TRUE]

\* NetworkDataIngestionService.ingest_interface_data
IngestInterface(device_name, interface_name, ip_address, network, status) ==
    /\ pc = "idle"
    /\ IF ~InNetwork(ip_address, ip_network(network))
       THEN \* raised before any store access
            /\ lastOp' = [op |-> "ingest_interface_data", outcome |-> "ValidationError",
                         created |-> FALSE]
            /\ UNCHANGED <<devices, interfaces, nextId>>
       ELSE LET device_id == get_or_create_id(device_name)
                upsert == update_or_create_interface(device_id, interface_name,
                                                     ip_address, network, status)
                afterDevice == get_or_create_nextId(device_name)
            IN  /\ upsert.created => RoomForInterface
                /\ devices' = get_or_create_devices(device_name)
                /\ interfaces' = upsert.table
                /\ nextId' = IF upsert.created
                             THEN [afterDevice EXCEPT !.Interface = @ + 1]
                             ELSE afterDevice
                /\ lastOp' = [op |-> "ingest_interface_data", outcome |-> upsert.outcome,
                             created |-> upsert.created]
    /\ UNCHANGED <<routes, nat_mappings>>
    /\ UNCHANGED callVars
    /\ UNCHANGED firewallVars

\* ipaddress accepts the text: a prefix length is at most 32
WellFormed(text) == text.len <= 32

\* NATMapping.clean: both fields parse as an IP or a network
NATMapping_clean(logical_ip_or_network, real_ip_or_network) ==
    WellFormed(logical_ip_or_network) /\ WellFormed(real_ip_or_network)

\* positions of the rows update_or_create looks up
NatKeyRows(device_id, logical_ip_or_network, real_ip_or_network) ==
    {k \in 1..Len(nat_mappings) :
        /\ nat_mappings[k].device_id = device_id
        /\ nat_mappings[k].logical_ip_or_network = logical_ip_or_network
        /\ nat_mappings[k].real_ip_or_network = real_ip_or_network}

\* NATMapping.objects.update_or_create(device, logical_ip_or_network,
\* real_ip_or_network, defaults): save() runs clean()
update_or_create_nat(device_id, logical_ip_or_network, real_ip_or_network, nat_type) ==
    LET rows == NatKeyRows(device_id, logical_ip_or_network, real_ip_or_network) IN
    IF Cardinality(rows) > 1
    THEN [outcome |-> "MultipleObjectsReturned", table |-> nat_mappings,
          created |-> FALSE]
    ELSE IF ~NATMapping_clean(logical_ip_or_network, real_ip_or_network)
    THEN [outcome |-> "ValidationError", table |-> nat_mappings, created |-> FALSE]
    ELSE IF rows # {}
    THEN LET k == CHOOSE k \in rows : TRUE IN
         [outcome |-> "ok",
          table |-> [nat_mappings EXCEPT ![k].type = nat_type],
          created |-> FALSE]
    ELSE [outcome |-> "ok",
          table |-> Append(nat_mappings,
                       [id |-> nextId.NATMapping, device_id |-> device_id,
                        logical_ip_or_network |-> logical_ip_or_network,
                        real_ip_or_network |-> real_ip_or_network,
                        type |-> nat_type]),
          created |-> TRUE]

\* NetworkDataIngestionService.ingest_nat_mapping
IngestNat(device_name, logical_ip_or_network, real_ip_or_network, nat_type) ==
    /\ pc = "idle"
    /\ LET device_id == get_or_create_id(device_name)
           upsert == update_or_create_nat(device_id, logical_ip_or_network,
                                          real_ip_or_network, nat_type)
           afterDevice == get_or_create_nextId(device_name)
       IN  /\ devices' = get_or_create_devices(device_name)
           /\ nat_mappings' = upsert.table
           /\ nextId' = IF upsert.created
                        THEN [afterDevice EXCEPT !.NATMapping = @ + 1]
                        ELSE afterDevice
           /\ lastOp' = [op |-> "ingest_nat_mapping", outcome |-> upsert.outcome,
                        created |-> upsert.created]
    /\ UNCHANGED <<interfaces, routes>>
    /\ UNCHANGED callVars
    /\ UNCHANGED firewallVars

\* Route.objects.create(source_device=..., ...): save() runs clean(), then
\* the INSERT checks unique_device_route (SQL treats NULL gateways as distinct)
CreateRoute(device_id, destination_network, gateway_ip, type, metric) ==
    /\ pc = "idle"
    /\ DeviceIdExists(device_id)
    /\ RoomForRoute
    /\ IF ~Route_clean(type, gateway_ip)
       THEN /\ lastOp' = [op |-> "Route.create", outcome |-> "ValidationError"]
            /\ UNCHANGED <<routes, nextId>>
       ELSE IF gateway_ip # None
               /\ RouteKeyRows(device_id, destination_network, gateway_ip) # {}
       THEN /\ lastOp' = [op |-> "Route.create", outcome |-> "IntegrityError"]
            /\ UNCHANGED <<routes, nextId>>
       ELSE /\ routes' = Append(routes,
                  [id |-> nextId.Route, source_device_id |-> device_id,
                   destination_network |-> destination_network,
                   gateway_ip |-> gateway_ip, type |-> type, metric |-> metric])
            /\ nextId' = [nextId EXCEPT !.Route = @ + 1]
            /\ lastOp' = [op |-> "Route.create", outcome |-> "ok"]
    /\ UNCHANGED <<devices, interfaces, nat_mappings>>
    /\ UNCHANGED callVars
    /\ UNCHANGED firewallVars

\* Route.objects.update_or_create(source_device, destination_network,
\* gateway_ip, defaults): the outcome and the Route table afterwards
update_or_create_route(device_id, destination_network, gateway_ip, type, metric) ==
    LET rows == RouteKeyRows(device_id, destination_network, gateway_ip) IN
    IF Cardinality(rows) > 1
    THEN [outcome |-> "MultipleObjectsReturned", table |-> routes, created |-> FALSE]
    ELSE IF ~Route_clean(type, gateway_ip)
    THEN [outcome |-> "ValidationError", table |-> routes, created |-> FALSE]
    ELSE IF rows # {}
    THEN LET k == CHOOSE k \in rows : TRUE IN
         [outcome |-> "ok",
          table |-> [routes EXCEPT ![k].type = type, ![k].metric = metric],
          created |-> FALSE]
    ELSE [outcome |-> "ok",
          table |-> Append(routes,
                       [id |-> nextId.Route, source_device_id |-> device_id,
                        destination_network |-> destination_network,
                        gateway_ip |-> gateway_ip, type |-> type, metric |-> metric]),
          created |-> TRUE]

\* NetworkDataIngestionService.ingest_route_data: the device is fetched or
\* created first, outside the transaction of update_or_create
IngestRoute(device_name, destination_network, gateway_ip, route_type, metric) ==
    /\ pc = "idle"
    /\ LET device_id == get_or_create_id(device_name)
           upsert == update_or_create_route(device_id, destination_network,
                                            gateway_ip, route_type, metric)
           afterDevice == get_or_create_nextId(device_name)
       IN  /\ upsert.created => RoomForRoute
           /\ devices' = get_or_create_devices(device_name)
           /\ routes' = upsert.table
           /\ nextId' = IF upsert.created
                        THEN [afterDevice EXCEPT !.Route = @ + 1]
                        ELSE afterDevice
           /\ lastOp' = [op |-> "ingest_route_data", outcome |-> upsert.outcome,
                        created |-> upsert.created]
    /\ UNCHANGED <<interfaces, nat_mappings>>
    /\ UNCHANGED callVars
    /\ UNCHANGED firewallVars

(***************************************************************************)
(* RoutingService (services.py): the lookups                               *)
(***************************************************************************)
\* Interface.objects.filter(status='up')
up_interfaces == SelectSeq(interfaces, LAMBDA i : i.status = "up")

\* the 'relationship' of a network query to an interface network
relationship(query_network, interface_network) ==
    IF query_network = interface_network THEN "exact"
    ELSE IF supernet_of(query_network, interface_network) THEN "supernet"
    ELSE IF supernet_of(interface_network, query_network) THEN "subnet"
    ELSE "overlap"

\* the test that takes an interface when only the first octets agree
matches_interface_loose(ip_or_network, interface) ==
    ip_or_network.addr[1] \div 256 = interface.network.addr[1] \div 256

\* the test of find_matching_networks on one up-interface
matches_interface(ip_or_network, interface) ==
    IF ip_or_network.slash
    THEN overlaps(ip_network(ip_or_network), ip_network(interface.network))
    ELSE InNetwork(ip_or_network.addr, ip_network(interface.network))

\* the entry find_matching_networks appends for a matching interface
matching_entry(ip_or_network, interface) ==
    [interface_id |-> interface.id,
     device |-> DeviceById(interface.device_id).name,
     device_id |-> interface.device_id,
     interface_name |-> interface.name,
     ip_address |-> interface.ip_address,
     network |-> interface.network,
     relationship |->
        IF ip_or_network.slash
        THEN relationship(ip_network(ip_or_network), ip_network(interface.network))
        ELSE IF ip_or_network.addr = interface.ip_address THEN "exact_ip_match"
        ELSE "contains_ip"]

\* RoutingService.find_matching_networks
find_matching_networks(ip_or_network) ==
    LET matching == SelectSeq(up_interfaces,
                              LAMBDA i : matches_interface(ip_or_network, i))
    IN  [k \in 1..Len(matching) |-> matching_entry(ip_or_network, matching[k])]

\* the conflict test without "query_network != n"
is_conflict_not_strict(query_network, n) == supernet_of(query_network, n)

\* "query_network.supernet_of(n) and query_network != n"
is_conflict(query_network, n) ==
    supernet_of(query_network, n) /\ query_network # n

\* the conflict scan that looks at the interfaces only
check_supernet_conflicts_interfaces_only(ip_or_network) ==
    IF ~ip_or_network.slash THEN <<>>
    ELSE
    LET query_network == ip_network(ip_or_network)
        ifs == SelectSeq(up_interfaces,
                  LAMBDA i : is_conflict(query_network, ip_network(i.network)))
    IN  [k \in 1..Len(ifs) |->
            [device |-> DeviceById(ifs[k].device_id).name,
             interface_name |-> ifs[k].name,
             network |-> ifs[k].network]]

\* RoutingService.check_supernet_conflicts
check_supernet_conflicts(ip_or_network) ==
    IF ~ip_or_network.slash THEN <<>>
    ELSE
    LET query_network == ip_network(ip_or_network)
        ifs == SelectSeq(up_interfaces,
                  LAMBDA i : is_conflict(query_network, ip_network(i.network)))
        rts == SelectSeq(routes,
                  LAMBDA r : is_conflict(query_network, ip_network(r.destination_network)))
    IN  [k \in 1..Len(ifs) |->
            [device |-> DeviceById(ifs[k].device_id).name,
             interface_name |-> ifs[k].name,
             network |-> ifs[k].network]]
        \o
        [k \in 1..Len(rts) |->
            [device |-> DeviceById(rts[k].source_device_id).name,
             route_type |-> rts[k].type,
             network |-> rts[k].destination_network]]

\* int(real_base) + (int(query_ip) - int(logical_base)), as a Python integer
translate(real_base, query_ip, logical_base) ==
    LET lo == real_base[2] + query_ip[2] - logical_base[2]
        hi == real_base[1] + query_ip[1] - logical_base[1]
    IN  <<hi + (lo \div 65536), lo % 65536>>

\* the dict find_nat_mapping returns for a mapping, without the optional keys
nat_entry(nat) ==
    [nat_id |-> nat.id,
     device |-> DeviceById(nat.device_id).name,
     logical |-> nat.logical_ip_or_network,
     real |-> nat.real_ip_or_network,
     type |-> nat.type]

\* one iteration of the loop of find_nat_mapping: the dict returned for this
\* mapping, or None when the loop goes on to the next mapping
nat_match(nat, ip_or_network) ==
    IF nat.logical_ip_or_network.slash
    THEN LET logical_net == ip_network(nat.logical_ip_or_network) IN
         IF ip_or_network.slash
         THEN IF overlaps(logical_net, ip_network(ip_or_network))
              THEN nat_entry(nat)
              ELSE None
         ELSE IF InNetwork(ip_or_network.addr, logical_net)
              THEN IF ~nat.real_ip_or_network.slash
                   THEN LET translated_ip ==
                                translate(nat.real_ip_or_network.addr,
                                          ip_or_network.addr,
                                          nat.logical_ip_or_network.addr)
                        IN  IF IsNegative(translated_ip)
                            THEN None   \* ValueError: the entry is skipped
                            ELSE [nat_id |-> nat.id,
                                  device |-> DeviceById(nat.device_id).name,
                                  logical |-> nat.logical_ip_or_network,
                                  real |-> nat.real_ip_or_network,
                                  type |-> nat.type,
                                  translated |-> IPText(translated_ip)]
                   ELSE [nat_id |-> nat.id,
                         device |-> DeviceById(nat.device_id).name,
                         logical |-> nat.logical_ip_or_network,
                         real |-> nat.real_ip_or_network,
                         type |-> nat.type,
                         note |-> "Network to network translation - specific IP translation not calculated"]
              ELSE None
    ELSE IF ~ip_or_network.slash /\ ip_or_network.addr = nat.logical_ip_or_network.addr
         THEN nat_entry(nat)
         ELSE None

\* RoutingService.find_nat_mapping
find_nat_mapping(device_id, ip_or_network, nat_type) ==
    LET mappings == SelectSeq(nat_mappings,
                       LAMBDA n : n.device_id = device_id /\ n.type = nat_type)
        hits == SelectSeq(mappings, LAMBDA n : nat_match(n, ip_or_network) # None)
    IN  IF Len(hits) = 0 THEN None ELSE nat_match(hits[1], ip_or_network)

(***************************************************************************)
(* RoutingService.find_route_path, one action per phase and per hop        *)
(***************************************************************************)
\* an f-string message: its fixed text and the values formatted into it
Message(text, args) == [text |-> text, args |-> args]

\* Route.objects.filter(source_device_id=device_id)
routes_on(device_id) == SelectSeq(routes, LAMBDA r : r.source_device_id = device_id)

\* the route test that takes every route of the device
route_matches_any(route, ip_or_network) == TRUE

\* "Check if destination matches this route"
route_matches(route, ip_or_network) ==
    IF ip_or_network.slash
    THEN overlaps(ip_network(route.destination_network), ip_network(ip_or_network))
    ELSE InNetwork(ip_or_network.addr, ip_network(route.destination_network))

\* the route scan: the rows from position k on, given the best so far
RECURSIVE scan_routes(_, _, _, _, _)
scan_routes(rs, k, ip_or_network, best_route, best_prefix_len) ==
    IF k > Len(rs) THEN best_route
    ELSE IF /\ route_matches(rs[k], ip_or_network)
            /\ rs[k].destination_network.len > best_prefix_len
         THEN scan_routes(rs, k + 1, ip_or_network, rs[k], rs[k].destination_network.len)
         ELSE scan_routes(rs, k + 1, ip_or_network, best_route, best_prefix_len)

\* among the longest matching routes the one of least metric
find_best_route_least_metric(device_id, ip_or_network) ==
    LET rs == routes_on(device_id)
        M == {k \in 1..Len(rs) : route_matches(rs[k], ip_or_network)}
        better(k, j) ==
            \/ rs[k].destination_network.len > rs[j].destination_network.len
            \/ /\ rs[k].destination_network.len = rs[j].destination_network.len
               /\ \/ rs[k].metric < rs[j].metric
                  \/ rs[k].metric = rs[j].metric /\ k <= j
    IN  IF M = {} THEN None
        ELSE rs[CHOOSE k \in M : \A j \in M : better(k, j)]

\* "Find best matching route on current device"
find_best_route(device_id, ip_or_network) ==
    scan_routes(routes_on(device_id), 1, ip_or_network, None, -1)

\* "Find which device has an interface with this gateway IP"
find_next_hop(gateway_ip) ==
    LET holders == SelectSeq(up_interfaces, LAMBDA i : i.ip_address = gateway_ip) IN
    IF gateway_ip = None \/ Len(holders) = 0 THEN None
    ELSE [device_id |-> holders[1].device_id,
          device_name |-> DeviceById(holders[1].device_id).name,
          interface_id |-> holders[1].id,
          interface_name |-> holders[1].name,
          ip_address |-> holders[1].ip_address]

\* "Find egress interface on current device"
find_egress_interface(device_id, gateway_ip) ==
    LET reach == SelectSeq(up_interfaces,
                    LAMBDA i : /\ i.device_id = device_id
                               /\ InNetwork(gateway_ip, ip_network(i.network)))
    IN  IF gateway_ip = None \/ Len(reach) = 0 THEN None
        ELSE [interface_id |-> reach[1].id,
              name |-> reach[1].name,
              ip_address |-> reach[1].ip_address]

\* the result dict with the status set before the path is known
initial_result_failed(src, dst) ==
    [status |-> "error", source |-> src, destination |-> dst, path |-> <<>>,
     nat_applied |-> [source |-> FALSE, destination |-> FALSE]]

\* the result dict find_route_path starts from
initial_result(src, dst) ==
    [status |-> "success", source |-> src, destination |-> dst, path |-> <<>>,
     nat_applied |-> [source |-> FALSE, destination |-> FALSE]]

\* the NAT lookups recorded in nat_applied only
with_nat_flags_only(res, source_nat, dest_nat) ==
    [res EXCEPT !.nat_applied = [source |-> source_nat # None,
                                 destination |-> dest_nat # None]]

\* result after "Step 3" and "Step 4": the NAT lookups recorded
with_nat(res, source_nat, dest_nat) ==
    LET r1 == IF source_nat = None THEN res
              ELSE [k \in DOMAIN res \cup {"nat_source_details"} |->
                      IF k = "nat_source_details" THEN source_nat
                      ELSE IF k = "nat_applied"
                           THEN [res.nat_applied EXCEPT !.source = TRUE]
                           ELSE res[k]]
    IN  IF dest_nat = None THEN r1
        ELSE [k \in DOMAIN r1 \cup {"nat_destination_details"} |->
                IF k = "nat_destination_details" THEN dest_nat
                ELSE IF k = "nat_applied"
                     THEN [r1.nat_applied EXCEPT !.destination = TRUE]
                     ELSE r1[k]]

\* the working destination after "Step 4"
working_destination(dst, dest_nat) ==
    IF dest_nat = None THEN dst
    ELSE IF "translated" \in DOMAIN dest_nat THEN dest_nat.translated
    ELSE dest_nat.real

\* find_route_path up to the hop loop: validation, same-device shortcut, NAT
Begin(src, dst) ==
    /\ pc = "idle"
    /\ source_ip_or_network' = src
    /\ destination_ip_or_network' = dst
    /\ LET source_conflicts == check_supernet_conflicts(src)
           dest_conflicts == check_supernet_conflicts(dst)
           source_matches == find_matching_networks(src)
           dest_matches == find_matching_networks(dst)
       IN
       IF Len(source_conflicts) > 0
       THEN /\ result' = [status |-> "error",
                          message |-> Message("Source conflicts with more specific networks", <<src>>),
                          conflicts |-> source_conflicts]
            /\ pc' = "done"
            /\ UNCHANGED <<dest_net, current_device_id, visited_devices,
                           current_ip_or_network, natLookups, routeLookups, ret>>
       ELSE IF Len(dest_conflicts) > 0
       THEN /\ result' = [status |-> "error",
                          message |-> Message("Destination conflicts with more specific networks", <<dst>>),
                          conflicts |-> dest_conflicts]
            /\ pc' = "done"
            /\ UNCHANGED <<dest_net, current_device_id, visited_devices,
                           current_ip_or_network, natLookups, routeLookups, ret>>
       ELSE IF Len(source_matches) = 0
       THEN /\ result' = [status |-> "error",
                          message |-> Message("Source not found in any known network", <<src>>)]
            /\ pc' = "done"
            /\ UNCHANGED <<dest_net, current_device_id, visited_devices,
                           current_ip_or_network, natLookups, routeLookups, ret>>
       ELSE IF Len(dest_matches) = 0
       THEN /\ result' = [status |-> "error",
                          message |-> Message("Destination not found in any known network", <<dst>>)]
            /\ pc' = "done"
            /\ UNCHANGED <<dest_net, current_device_id, visited_devices,
                           current_ip_or_network, natLookups, routeLookups, ret>>
       ELSE IF source_matches[1].device_id = dest_matches[1].device_id
       THEN /\ result' = [initial_result(src, dst) EXCEPT !.path =
                            <<[device |-> source_matches[1].device,
                               device_id |-> source_matches[1].device_id,
                               ingress_interface |-> None,
                               egress_interface |-> None,
                               next_hop |-> NoName,
                               note |-> "Source and destination are on the same device"]>>]
            /\ dest_net' = dest_matches[1]
            /\ pc' = "done"
            /\ UNCHANGED <<current_device_id, visited_devices,
                           current_ip_or_network, natLookups, routeLookups, ret>>
       ELSE LET source_nat == find_nat_mapping(source_matches[1].device_id, src, "source")
                dest_nat == find_nat_mapping(dest_matches[1].device_id, dst, "destination")
            IN  /\ dest_net' = dest_matches[1]
                /\ current_device_id' = source_matches[1].device_id
                /\ visited_devices' = <<>>
                /\ natLookups' = <<[device_id |-> source_matches[1].device_id,
                                    ip_or_network |-> src, nat_type |-> "source",
                                    found |-> source_nat],
                                   [device_id |-> dest_matches[1].device_id,
                                    ip_or_network |-> dst, nat_type |-> "destination",
                                    found |-> dest_nat]>>
                /\ result' = with_nat(initial_result(src, dst), source_nat, dest_nat)
                /\ current_ip_or_network' = working_destination(dst, dest_nat)
                /\ pc' = "loop"
                /\ UNCHANGED <<routeLookups, ret>>
    /\ UNCHANGED storeVars
    /\ UNCHANGED firewallVars

\* the hop dict with next_hop always "Directly Connected"
hop_entry_unnamed(device, egress_interface, best_route, next_hop) ==
    [device |-> device.name,
     device_id |-> device.id,
     ingress_interface |-> None,
     egress_interface |-> egress_interface,
     route |-> [network |-> best_route.destination_network,
                gateway |-> best_route.gateway_ip,
                type |-> best_route.type],
     next_hop |-> "Directly Connected"]

\* the hop dict appended to the path ("Add hop to the path")
hop_entry(device, egress_interface, best_route, next_hop) ==
    [device |-> device.name,
     device_id |-> device.id,
     ingress_interface |-> None,
     egress_interface |-> egress_interface,
     route |-> [network |-> best_route.destination_network,
                gateway |-> best_route.gateway_ip,
                type |-> best_route.type],
     next_hop |-> IF next_hop # None THEN next_hop.device_name ELSE "Directly Connected"]

\* result['path'][-1]['next_hop_ingress'] = ingress_interface
set_next_hop_ingress(path, ingress_interface) ==
    [path EXCEPT ![Len(path)] =
        [k \in DOMAIN path[Len(path)] \cup {"next_hop_ingress"} |->
            IF k = "next_hop_ingress" THEN ingress_interface ELSE path[Len(path)][k]]]

\* the condition of the hop loop without the visited test
loop_condition_unguarded == current_device_id # dest_net.device_id

\* the condition of the hop loop
loop_condition ==
    /\ current_device_id # dest_net.device_id
    /\ current_device_id \notin Range(visited_devices)

\* one iteration of the hop loop ("Step 5")
Hop ==
    /\ pc = "loop"
    /\ loop_condition
    /\ visited_devices' = Append(visited_devices, current_device_id)
    /\ IF ~DeviceIdExists(current_device_id)
       THEN /\ result' = [status |-> "error",
                          message |-> Message("Device with ID not found", <<current_device_id>>),
                          path |-> result.path]
            /\ pc' = "done"
            /\ UNCHANGED <<current_device_id, routeLookups>>
       ELSE
       LET current_device == DeviceById(current_device_id)
           best_route == find_best_route(current_device_id, current_ip_or_network)
       IN
       /\ routeLookups' = Append(routeLookups,
                                 [device_id |-> current_device_id,
                                  ip_or_network |-> current_ip_or_network])
       /\ IF best_route = None
          THEN /\ result' = [status |-> "error",
                             message |-> Message("No route found on device",
                                                 <<current_device.name, current_ip_or_network>>),
                             path |-> result.path]
               /\ pc' = "done"
               /\ UNCHANGED current_device_id
          ELSE
          LET next_hop == find_next_hop(best_route.gateway_ip)
              egress_interface == find_egress_interface(current_device_id,
                                                        best_route.gateway_ip)
              path == Append(result.path,
                             hop_entry(current_device, egress_interface,
                                       best_route, next_hop))
          IN
          IF next_hop = None /\ best_route.type # "connected"
          THEN /\ result' = [status |-> "error",
                             message |-> Message("No next hop found for route",
                                                 <<best_route.destination_network,
                                                   current_device.name>>),
                             path |-> result.path]
               /\ pc' = "done"
               /\ UNCHANGED current_device_id
          ELSE IF next_hop # None
          THEN LET ingress_interface == [interface_id |-> next_hop.interface_id,
                                         name |-> next_hop.interface_name,
                                         ip_address |-> next_hop.ip_address]
               IN  /\ current_device_id' = next_hop.device_id
                   /\ result' = [result EXCEPT !.path =
                                   IF next_hop.device_id # dest_net.device_id
                                   THEN set_next_hop_ingress(path, ingress_interface)
                                   ELSE path]
                   /\ pc' = "loop"
          ELSE \* "Directly connected - we're done": break
               /\ result' = [result EXCEPT !.path = path]
               /\ pc' = "final"
               /\ UNCHANGED current_device_id
    /\ UNCHANGED <<source_ip_or_network, destination_ip_or_network, dest_net,
                   current_ip_or_network, natLookups, ret>>
    /\ UNCHANGED storeVars
    /\ UNCHANGED firewallVars

\* result['path'][-1].get('next_hop_ingress') if result['path'] else None
last_next_hop_ingress(path) ==
    IF Len(path) = 0 THEN None
    ELSE IF "next_hop_ingress" \in DOMAIN path[Len(path)]
         THEN path[Len(path)].next_hop_ingress
         ELSE None

\* after the hop loop: "Check if we reached the destination or hit a loop"
Finish ==
    /\ \/ pc = "final"
       \/ pc = "loop" /\ ~loop_condition
    /\ IF current_device_id = dest_net.device_id
       THEN IF ~DeviceIdExists(current_device_id)
            THEN \* Device.DoesNotExist propagates to the caller
                 result' = [exception |-> "Device.DoesNotExist"]
            ELSE LET final_device == DeviceById(current_device_id) IN
                 result' = [result EXCEPT
                    !.path = Append(result.path,
                        [device |-> final_device.name,
                         device_id |-> final_device.id,
                         ingress_interface |-> last_next_hop_ingress(result.path),
                         egress_interface |-> None,
                         route |-> None,
                         next_hop |-> NoName,
                         note |-> "Destination reached"]),
                    !.status = "success"]
       ELSE IF current_device_id \in Range(visited_devices)
       THEN result' = [k \in DOMAIN result \cup {"message"} |->
                          IF k = "message" THEN Message("Routing loop detected", <<>>)
                          ELSE IF k = "status" THEN "error"
                          ELSE result[k]]
       ELSE result' = result
    /\ pc' = "done"
    /\ UNCHANGED <<source_ip_or_network, destination_ip_or_network, dest_net,
                   current_device_id, visited_devices, current_ip_or_network,
                   natLookups, routeLookups, ret>>
    /\ UNCHANGED storeVars
    /\ UNCHANGED firewallVars

\* a direct call of RoutingService.find_nat_mapping
FindNatMapping(device_id, ip_or_network, nat_type) ==
    /\ pc = "idle"
    /\ ret' = [op |-> "find_nat_mapping",
               args |-> <<device_id, ip_or_network, nat_type>>,
               value |-> find_nat_mapping(device_id, ip_or_network, nat_type)]
    /\ pc' = "returned"
    /\ UNCHANGED <<source_ip_or_network, destination_ip_or_network, dest_net,
                   current_device_id, visited_devices, current_ip_or_network,
                   result, natLookups, routeLookups>>
    /\ UNCHANGED storeVars
    /\ UNCHANGED firewallVars

\* a direct call of RoutingService.find_matching_networks
FindMatchingNetworks(ip_or_network) ==
    /\ pc = "idle"
    /\ ret' = [op |-> "find_matching_networks",
               args |-> <<ip_or_network>>,
               value |-> find_matching_networks(ip_or_network)]
    /\ pc' = "returned"
    /\ UNCHANGED <<source_ip_or_network, destination_ip_or_network, dest_net,
                   current_device_id, visited_devices, current_ip_or_network,
                   result, natLookups, routeLookups>>
    /\ UNCHANGED storeVars
    /\ UNCHANGED firewallVars

\* a direct call of RoutingService.check_supernet_conflicts
CheckSupernetConflicts(ip_or_network) ==
    /\ pc = "idle"
    /\ ret' = [op |-> "check_supernet_conflicts",
               args |-> <<ip_or_network>>,
               value |-> check_supernet_conflicts(ip_or_network)]
    /\ pc' = "returned"
    /\ UNCHANGED <<source_ip_or_network, destination_ip_or_network, dest_net,
                   current_device_id, visited_devices, current_ip_or_network,
                   result, natLookups, routeLookups>>
    /\ UNCHANGED storeVars
    /\ UNCHANGED firewallVars

(***************************************************************************)
(* RoutingService.find_route_path as a function of the store and of its    *)
(* arguments: the statements of Begin, Hop and Finish on a record of the   *)
(* local variables                                                         *)
(***************************************************************************)
\* the locals after the statements before the hop loop
path_begin(src, dst) ==
    LET source_conflicts == check_supernet_conflicts(src)
        dest_conflicts == check_supernet_conflicts(dst)
        source_matches == find_matching_networks(src)
        dest_matches == find_matching_networks(dst)
        returned(res) == [pc |-> "done", result |-> res, dest_net |-> None,
                          current_device_id |-> 0, visited_devices |-> <<>>,
                          current_ip_or_network |-> None]
    IN
    IF Len(source_conflicts) > 0
    THEN returned([status |-> "error",
                   message |-> Message("Source conflicts with more specific networks", <<src>>),
                   conflicts |-> source_conflicts])
    ELSE IF Len(dest_conflicts) > 0
    THEN returned([status |-> "error",
                   message |-> Message("Destination conflicts with more specific networks", <<dst>>),
                   conflicts |-> dest_conflicts])
    ELSE IF Len(source_matches) = 0
    THEN returned([status |-> "error",
                   message |-> Message("Source not found in any known network", <<src>>)])
    ELSE IF Len(dest_matches) = 0
    THEN returned([status |-> "error",
                   message |-> Message("Destination not found in any known network", <<dst>>)])
    ELSE IF source_matches[1].device_id = dest_matches[1].device_id
    THEN returned([initial_result(src, dst) EXCEPT !.path =
                     <<[device |-> source_matches[1].device,
                        device_id |-> source_matches[1].device_id,
                        ingress_interface |-> None,
                        egress_interface |-> None,
                        next_hop |-> NoName,
                        note |-> "Source and destination are on the same device"]>>])
    ELSE LET source_nat == find_nat_mapping(source_matches[1].device_id, src, "source")
             dest_nat == find_nat_mapping(dest_matches[1].device_id, dst, "destination")
         IN  [pc |-> "loop",
              result |-> with_nat(initial_result(src, dst), source_nat, dest_nat),
              dest_net |-> dest_matches[1],
              current_device_id |-> source_matches[1].device_id,
              visited_devices |-> <<>>,
              current_ip_or_network |-> working_destination(dst, dest_nat)]

\* the locals after one iteration of the hop loop
path_hop(st) ==
    LET visited == Append(st.visited_devices, st.current_device_id)
        returned(res) == [st EXCEPT !.pc = "done", !.result = res,
                                    !.visited_devices = visited]
    IN
    IF ~DeviceIdExists(st.current_device_id)
    THEN returned([status |-> "error",
                   message |-> Message("Device with ID not found", <<st.current_device_id>>),
                   path |-> st.result.path])
    ELSE
    LET current_device == DeviceById(st.current_device_id)
        best_route == find_best_route(st.current_device_id, st.current_ip_or_network)
    IN
    IF best_route = None
    THEN returned([status |-> "error",
                   message |-> Message("No route found on device",
                                       <<current_device.name, st.current_ip_or_network>>),
                   path |-> st.result.path])
    ELSE
    LET next_hop == find_next_hop(best_route.gateway_ip)
        egress_interface == find_egress_interface(st.current_device_id,
                                                  best_route.gateway_ip)
        path == Append(st.result.path,
                       hop_entry(current_device, egress_interface, best_route, next_hop))
    IN
    IF next_hop = None /\ best_route.type # "connected"
    THEN returned([status |-> "error",
                   message |-> Message("No next hop found for route",
                                       <<best_route.destination_network,
                                         current_device.name>>),
                   path |-> st.result.path])
    ELSE IF next_hop # None
    THEN LET ingress_interface == [interface_id |-> next_hop.interface_id,
                                   name |-> next_hop.interface_name,
                                   ip_address |-> next_hop.ip_address]
         IN  [st EXCEPT !.visited_devices = visited,
                        !.current_device_id = next_hop.device_id,
                        !.result = [st.result EXCEPT !.path =
                                      IF next_hop.device_id # st.dest_net.device_id
                                      THEN set_next_hop_ingress(path, ingress_interface)
                                      ELSE path]]
    ELSE [st EXCEPT !.pc = "final", !.visited_devices = visited,
                    !.result = [st.result EXCEPT !.path = path]]

\* the dict returned after the hop loop
path_finish(st) ==
    IF st.current_device_id = st.dest_net.device_id
    THEN IF ~DeviceIdExists(st.current_device_id)
         THEN [exception |-> "Device.DoesNotExist"]
         ELSE LET final_device == DeviceById(st.current_device_id) IN
              [st.result EXCEPT
                 !.path = Append(st.result.path,
                     [device |-> final_device.name,
                      device_id |-> final_device.id,
                      ingress_interface |-> last_next_hop_ingress(st.result.path),
                      egress_interface |-> None,
                      route |-> None,
                      next_hop |-> NoName,
                      note |-> "Destination reached"]),
                 !.status = "success"]
    ELSE IF st.current_device_id \in Range(st.visited_devices)
    THEN [k \in DOMAIN st.result \cup {"message"} |->
             IF k = "message" THEN Message("Routing loop detected", <<>>)
             ELSE IF k = "status" THEN "error"
             ELSE st.result[k]]
    ELSE st.result

\* the statements from a point of the call to its return
RECURSIVE path_run(_)
path_run(st) ==
    IF st.pc = "done" THEN st.result
    ELSE IF /\ st.pc = "loop"
            /\ st.current_device_id # st.dest_net.device_id
            /\ st.current_device_id \notin Range(st.visited_devices)
         THEN path_run(path_hop(st))
         ELSE path_finish(st)

\* RoutingService.find_route_path
find_route_path(src, dst) == path_run(path_begin(src, dst))

(***************************************************************************)
(* RoutingPathView (views.py) and its serializers (serializers.py)         *)
(***************************************************************************)
\* PathSegmentSerializer: the declared fields of one path entry; the fields
\* with allow_null are None when the entry lacks them, the fields with
\* required=False are left out
PathSegmentSerializer(entry) ==
    LET nullable == {"ingress_interface", "egress_interface", "route", "next_hop"}
        optional == {"note", "next_hop_ingress"}
        present == {"device", "device_id"} \cup nullable
                      \cup (optional \cap DOMAIN entry)
    IN  [k \in present |-> IF k \in DOMAIN entry THEN entry[k] ELSE None]

\* the required fields of RoutingPathSerializer
RoutingPathRequired == {"status", "source", "destination"}

\* the fields of RoutingPathSerializer declared with required=False
RoutingPathOptional ==
    {"message", "path", "nat_applied", "nat_source_details",
     "nat_destination_details", "conflicts"}

\* RoutingPathSerializer(instance).data: KeyError when the dict lacks a
\* required field
RoutingPathSerializer(instance) ==
    IF ~(RoutingPathRequired \subseteq DOMAIN instance)
    THEN [exception |-> "KeyError"]
    ELSE [k \in (RoutingPathRequired \cup RoutingPathOptional) \cap DOMAIN instance |->
            IF k = "path"
            THEN [j \in 1..Len(instance.path) |-> PathSegmentSerializer(instance.path[j])]
            ELSE instance[k]]

\* "Ensure all expected fields are present in the result"
ensure_fields(res) ==
    [k \in DOMAIN res \cup {"path", "nat_applied"} |->
        IF k \in DOMAIN res THEN res[k]
        ELSE IF k = "path" THEN <<>>
        ELSE [source |-> FALSE, destination |-> FALSE]]

\* the Response of the view, or the exception that leaves it (answered 500)
view_response(res) ==
    IF "status" \notin DOMAIN res
    THEN [status_code |-> 500, exception |-> res.exception]
    ELSE LET data == RoutingPathSerializer(ensure_fields(res)) IN
         IF "exception" \in DOMAIN data
         THEN [status_code |-> 500, exception |-> data.exception]
         ELSE IF res.status = "error"
              THEN [status_code |-> 400, data |-> data]
              ELSE [status_code |-> 200, data |-> data]

\* RoutingPathView.get without its source or its destination parameter
\* ("source or ''": an absent parameter is serialized as the empty string)
RoutingPathViewMissing(source, destination) ==
    /\ pc = "idle"
    /\ source = None \/ destination = None
    /\ ret' = [op |-> "RoutingPathView.get",
               args |-> <<source, destination>>,
               value |-> [status_code |-> 400,
                          data |-> RoutingPathSerializer(
                             [status |-> "error",
                              message |-> Message("Both source and destination parameters are required", <<>>),
                              source |-> IF source = None THEN "" ELSE source,
                              destination |-> IF destination = None THEN ""
                                              ELSE destination,
                              path |-> <<>>,
                              nat_applied |-> [source |-> FALSE, destination |-> FALSE]])]]
    /\ pc' = "responded"
    /\ UNCHANGED <<source_ip_or_network, destination_ip_or_network, dest_net,
                   current_device_id, visited_devices, current_ip_or_network,
                   result, natLookups, routeLookups>>
    /\ UNCHANGED storeVars
    /\ UNCHANGED firewallVars

\* RoutingPathView.get after find_route_path has returned to it
RoutingPathViewRespond ==
    /\ pc = "done"
    /\ ret' = [op |-> "RoutingPathView.get",
               args |-> <<source_ip_or_network, destination_ip_or_network>>,
               value |-> view_response(result)]
    /\ pc' = "responded"
    /\ UNCHANGED <<source_ip_or_network, destination_ip_or_network, dest_net,
                   current_device_id, visited_devices, current_ip_or_network,
                   result, natLookups, routeLookups>>
    /\ UNCHANGED storeVars
    /\ UNCHANGED firewallVars

(***************************************************************************)
(* TopologyService (services.py)                                           *)
(***************************************************************************)
\* the elements of s, each once, in the order of their first occurrence
\* (the keys of a dict filled while iterating s)
RECURSIVE Distinct(_)
Distinct(s) ==
    IF Len(s) = 0 THEN <<>>
    ELSE LET front == Distinct(SubSeq(s, 1, Len(s) - 1)) IN
         IF s[Len(s)] \in Range(front) THEN front ELSE Append(front, s[Len(s)])

\* the concatenation of the sequences f[1], ..., f[n]
RECURSIVE Flatten(_)
Flatten(f) ==
    IF Len(f) = 0 THEN <<>>
    ELSE Flatten(SubSeq(f, 1, Len(f) - 1)) \o f[Len(f)]

\* the interfaces the topology is built from, of any status
topology_interfaces_all == interfaces

\* "interfaces = Interface.objects.filter(status='up')"
topology_interfaces == up_interfaces

\* the node list: one dict per Device
topology_nodes ==
    [k \in 1..Len(devices) |->
        [id |-> devices[k].id,
         label |-> devices[k].name,
         interfaces_count |->
            Len(SelectSeq(interfaces, LAMBDA i : i.device_id = devices[k].id))]]

\* the dicts appended under networks_by_device[device_id][network]
interface_dicts(rows) ==
    [k \in 1..Len(rows) |->
        [interface_id |-> rows[k].id, name |-> rows[k].name,
         ip_address |-> rows[k].ip_address]]

\* the keys of networks_by_device, in insertion order
networks_by_device_keys ==
    Distinct([k \in 1..Len(topology_interfaces) |-> topology_interfaces[k].device_id])

\* the keys of networks_by_device[device_id], in insertion order
networks_by_device(device_id) ==
    LET own == SelectSeq(topology_interfaces, LAMBDA i : i.device_id = device_id)
    IN  Distinct([k \in 1..Len(own) |-> own[k].network])

\* "Find all devices on this network"
devices_on_network(network) ==
    SelectSeq(networks_by_device_keys,
              LAMBDA d_id : network \in Range(networks_by_device(d_id)))

\* the label of a device id among the nodes, or the fallback text
node_label(device_id) ==
    IF \E k \in 1..Len(topology_nodes) : topology_nodes[k].id = device_id
    THEN (CHOOSE n \in Range(topology_nodes) : n.id = device_id).label
    ELSE "Device"

\* the edges from the device at position i to the devices after it
edges_from(on_network, i, network) ==
    [j \in 1..(Len(on_network) - i) |->
        [source |-> on_network[i],
         target |-> on_network[i + j],
         network |-> network,
         source_label |-> node_label(on_network[i]),
         target_label |-> node_label(on_network[i + j])]]

\* the edges for one network, a stub network giving a self-loop when asked
network_edges_with_stubs(network, include_stub_networks) ==
    LET on_network == devices_on_network(network) IN
    IF Len(on_network) > 1
    THEN Flatten([i \in 1..Len(on_network) |-> edges_from(on_network, i, network)])
    ELSE IF include_stub_networks
    THEN <<[source |-> on_network[1],
            target |-> on_network[1],
            network |-> network,
            source_label |-> node_label(on_network[1]),
            target_label |-> node_label(on_network[1])]>>
    ELSE <<>>

\* the edges appended for one network when it is first met
network_edges(network, include_stub_networks) ==
    LET on_network == devices_on_network(network) IN
    IF Len(on_network) > 1 \/ include_stub_networks
    THEN Flatten([i \in 1..Len(on_network) |-> edges_from(on_network, i, network)])
    ELSE <<>>

\* TopologyService.generate_topology
generate_topology(include_stub_networks) ==
    LET visited == Flatten([k \in 1..Len(networks_by_device_keys) |->
                               networks_by_device(networks_by_device_keys[k])])
        processed == Distinct(visited)
    IN  [nodes |-> topology_nodes,
         edges |-> Flatten([k \in 1..Len(processed) |->
                              network_edges(processed[k], include_stub_networks)])]

\* the up-interfaces of every device, the queried one included
other_up_interfaces_all(device_id) == up_interfaces

\* "Interface.objects.filter(status='up').exclude(device=device)"
other_up_interfaces(device_id) ==
    SelectSeq(up_interfaces, LAMBDA i : i.device_id # device_id)

\* TopologyService.get_device_networks, for a device that exists
get_device_networks(device_id, include_stub_networks) ==
    LET own == SelectSeq(interfaces,
                  LAMBDA i : i.device_id = device_id /\ i.status = "up")
        networks == Distinct([k \in 1..Len(own) |-> own[k].network])
        others == other_up_interfaces(device_id)
        non_stub_networks == {others[k].network : k \in 1..Len(others)}
                                \cap Range(networks)
        kept == IF include_stub_networks THEN networks
                ELSE SelectSeq(networks, LAMBDA n : n \in non_stub_networks)
    IN  [k \in 1..Len(kept) |->
            [network |-> kept[k],
             interfaces |-> interface_dicts(
                               SelectSeq(own, LAMBDA i : i.network = kept[k]))]]

\* a call of TopologyService.generate_topology
GenerateTopology(include_stub_networks) ==
    /\ pc = "idle"
    /\ ret' = [op |-> "generate_topology",
               args |-> <<include_stub_networks>>,
               value |-> generate_topology(include_stub_networks)]
    /\ pc' = "returned"
    /\ UNCHANGED <<source_ip_or_network, destination_ip_or_network, dest_net,
                   current_device_id, visited_devices, current_ip_or_network,
                   result, natLookups, routeLookups>>
    /\ UNCHANGED storeVars
    /\ UNCHANGED firewallVars

\* the call that fetches its device with get_or_create on the id
GetDeviceNetworks_creating(device_id, include_stub_networks) ==
    /\ pc = "idle"
    /\ ret' = [op |-> "get_device_networks",
               args |-> <<device_id, include_stub_networks>>,
               value |-> IF DeviceIdExists(device_id)
                         THEN get_device_networks(device_id, include_stub_networks)
                         ELSE <<>>]
    /\ pc' = "returned"
    /\ devices' = IF DeviceIdExists(device_id) THEN devices
                  ELSE Append(devices, [id |-> device_id, name |-> ""])
    /\ UNCHANGED <<source_ip_or_network, destination_ip_or_network, dest_net,
                   current_device_id, visited_devices, current_ip_or_network,
                   result, natLookups, routeLookups>>
    /\ UNCHANGED <<interfaces, routes, nat_mappings, nextId, lastOp>>
    /\ UNCHANGED firewallVars

\* a call of TopologyService.get_device_networks
GetDeviceNetworks(device_id, include_stub_networks) ==
    /\ pc = "idle"
    /\ ret' = [op |-> "get_device_networks",
               args |-> <<device_id, include_stub_networks>>,
               value |-> IF DeviceIdExists(device_id)
                         THEN get_device_networks(device_id, include_stub_networks)
                         ELSE [exception |-> "ValidationError",
                               message |-> Message("Device with ID does not exist",
                                                   <<device_id>>)]]
    /\ pc' = "returned"
    /\ UNCHANGED <<source_ip_or_network, destination_ip_or_network, dest_net,
                   current_device_id, visited_devices, current_ip_or_network,
                   result, natLookups, routeLookups>>
    /\ UNCHANGED storeVars
    /\ UNCHANGED firewallVars

(***************************************************************************)
(* Device deletion (models.py: the ForeignKeys with on_delete=CASCADE)     *)
(***************************************************************************)
\* the rows a ForeignKey with on_delete=DO_NOTHING would leave behind
on_delete_do_nothing(rows, device_id) == rows

\* what is left of a table with a CASCADE ForeignKey named 'device'
on_delete_cascade(rows, device_id) ==
    SelectSeq(rows, LAMBDA r : r.device_id # device_id)

\* what is left of the Route table: its CASCADE ForeignKey is 'source_device'
on_delete_cascade_routes(rows, device_id) ==
    SelectSeq(rows, LAMBDA r : r.source_device_id # device_id)

\* Device.delete(): the row and, by cascade, the rows that point to it
delete_cascade(device_id) ==
    /\ DeviceIdExists(device_id)
    /\ devices' = SelectSeq(devices, LAMBDA d : d.id # device_id)
    /\ interfaces' = on_delete_cascade(interfaces, device_id)
    /\ routes' = on_delete_cascade_routes(routes, device_id)
    /\ nat_mappings' = on_delete_cascade(nat_mappings, device_id)
    /\ lastOp' = [op |-> "Device.delete", outcome |-> "ok"]
    /\ UNCHANGED nextId

\* Device.delete(), as DeviceViewSet.destroy calls it
DeleteDevice(device_id) ==
    /\ pc = "idle"
    /\ delete_cascade(device_id)
    /\ UNCHANGED callVars
    /\ UNCHANGED firewallVars

\* Device.delete() by another request while find_route_path is between two
\* of its queries: the function opens no transaction, each query reads the
\* store as it is then
DeleteDeviceDuringCall(device_id) ==
    /\ pc \in {"loop", "final"}
    /\ delete_cascade(device_id)
    /\ UNCHANGED callVars
    /\ UNCHANGED firewallVars

\* a call of RoutingService.find_route_path served from start to return
FindRoutePath(src, dst) ==
    /\ pc = "idle"
    /\ ret' = [op |-> "find_route_path",
               args |-> <<src, dst>>,
               value |-> find_route_path(src, dst)]
    /\ pc' = "returned"
    /\ UNCHANGED <<source_ip_or_network, destination_ip_or_network, dest_net,
                   current_device_id, visited_devices, current_ip_or_network,
                   result, natLookups, routeLookups>>
    /\ UNCHANGED storeVars
    /\ UNCHANGED firewallVars

\* the next request is served once a service call has returned; what the
\* last call returned is kept for comparison
AfterCall ==
    /\ pc = "returned"
    /\ pc' = "idle"
    /\ UNCHANGED <<source_ip_or_network, destination_ip_or_network, dest_net,
                   current_device_id, visited_devices, current_ip_or_network,
                   result, natLookups, routeLookups, ret>>
    /\ UNCHANGED firewallVars

\* Interface.delete(), as InterfaceViewSet.destroy calls it, served between
\* two service calls
DeleteInterface(interface_id) ==
    /\ AfterCall
    /\ \E k \in 1..Len(interfaces) :
          /\ interfaces[k].id = interface_id
          /\ lastOp' = [op |-> "Interface.delete", outcome |-> "ok",
                        deleted |-> interfaces[k]]
    /\ interfaces' = SelectSeq(interfaces, LAMBDA i : i.id # interface_id)
    /\ UNCHANGED <<devices, routes, nat_mappings, nextId>>

\* a PATCH of the metric of a route (RouteViewSet.partial_update), served
\* between two service calls; save() runs clean(), which does not read the
\* metric
UpdateRouteMetric(route_id, metric) ==
    /\ AfterCall
    /\ \E k \in 1..Len(routes) :
          /\ routes[k].id = route_id
          /\ routes[k].metric # metric
          /\ Route_clean(routes[k].type, routes[k].gateway_ip)
          /\ routes' = [routes EXCEPT ![k].metric = metric]
    /\ lastOp' = [op |-> "Route.update", outcome |-> "ok"]
    /\ UNCHANGED <<devices, interfaces, nat_mappings, nextId>>

\* NATMapping.delete(), as NATMappingViewSet.destroy calls it, served
\* between two service calls
DeleteNatMapping(mapping_id) ==
    /\ AfterCall
    /\ \E k \in 1..Len(nat_mappings) :
          /\ nat_mappings[k].id = mapping_id
          /\ lastOp' = [op |-> "NATMapping.delete", outcome |-> "ok",
                        deleted |-> nat_mappings[k]]
    /\ nat_mappings' = SelectSeq(nat_mappings, LAMBDA n : n.id # mapping_id)
    /\ UNCHANGED <<devices, interfaces, routes, nextId>>

(***************************************************************************)
(* The firewall connector (core/firewall/base.py, test_firewall.py)        *)
(***************************************************************************)
\* the IP objects of _generate_mock_data, in creation order; a uid stands
\* for the uuid4 string
MockIPObjects ==
    <<[name |-> "Server1", uid |-> "ip-1", type |-> "host"],
      [name |-> "Server2", uid |-> "ip-2", type |-> "host"],
      [name |-> "DevNetwork", uid |-> "ip-3", type |-> "network"],
      [name |-> "TestServer", uid |-> "ip-4", type |-> "host"]>>

\* the groups of _generate_mock_data
MockGroups ==
    <<[name |-> "WebServers", uid |-> "group-1", members |-> <<"ip-1">>],
      [name |-> "AllServers", uid |-> "group-2",
       members |-> <<"ip-1", "ip-2", "ip-4", "group-1">>]>>

\* the rules of _generate_mock_data
MockRules ==
    <<[name |-> "AllowWebAccess", uid |-> "rule-1",
       source |-> <<"ip-3">>, destination |-> <<"group-1">>],
      [name |-> "AllowTestAccess", uid |-> "rule-2",
       source |-> <<"any">>, destination |-> <<"ip-4">>]>>

\* the dict that holds every object under its uid and under its name
BothKeys(objects) ==
    [key \in {objects[k].uid : k \in 1..Len(objects)}
             \cup {objects[k].name : k \in 1..Len(objects)} |->
        CHOOSE o \in Range(objects) : o.uid = key \/ o.name = key]

\* TestFirewall.__init__
NewTestFirewall ==
    [connected |-> FALSE,
     mock_ip_objects |-> BothKeys(MockIPObjects),
     mock_groups |-> BothKeys(MockGroups),
     mock_rules |-> BothKeys(MockRules)]

\* the uids of the groups and of the rules in the order the dicts hold them
GroupOrder == [k \in 1..Len(MockGroups) |-> MockGroups[k].uid]

RuleOrder == [k \in 1..Len(MockRules) |-> MockRules[k].uid]

\* list.remove(x): the list without the first x
RECURSIVE list_remove(_, _)
list_remove(list, x) ==
    IF Len(list) = 0 THEN list
    ELSE IF Head(list) = x THEN Tail(list)
    ELSE <<Head(list)>> \o list_remove(Tail(list), x)

\* "Find both name and UID entries and remove them"
without_uid(dict, uid) ==
    [key \in {k \in DOMAIN dict : dict[k].uid # uid} |-> dict[key]]

\* what a call gives back: the connector afterwards and the value returned
\* or the exception raised
returns(fw, value) == [fw |-> fw, value |-> value]

raises(fw, exception) == [fw |-> fw, value |-> [exception |-> exception]]

raised(outcome) ==
    /\ outcome.value \notin BOOLEAN
    /\ "exception" \in DOMAIN outcome.value

\* TestFirewall.get_dependencies, for an IP object that exists
get_dependencies(fw, ip_object_id) ==
    LET uid == fw.mock_ip_objects[ip_object_id].uid IN
    [groups |-> SelectSeq(GroupOrder,
                    LAMBDA g : /\ g \in DOMAIN fw.mock_groups
                               /\ uid \in Range(fw.mock_groups[g].members)),
     rules |-> SelectSeq(RuleOrder,
                    LAMBDA r : /\ r \in DOMAIN fw.mock_rules
                               /\ \/ uid \in Range(fw.mock_rules[r].source)
                                  \/ uid \in Range(fw.mock_rules[r].destination))]

\* TestFirewall.remove_ip_from_group
remove_ip_from_group(fw, group_id, ip_object_id) ==
    IF ~fw.connected THEN raises(fw, "ConnectionError")
    ELSE IF group_id \notin DOMAIN fw.mock_groups THEN raises(fw, "ObjectNotFoundError")
    ELSE IF ip_object_id \notin DOMAIN fw.mock_ip_objects
    THEN raises(fw, "ObjectNotFoundError")
    ELSE LET group == fw.mock_groups[group_id]
             uid == fw.mock_ip_objects[ip_object_id].uid
         IN  IF uid \in Range(group.members)
             THEN returns([fw EXCEPT !.mock_groups =
                              [key \in DOMAIN fw.mock_groups |->
                                  IF fw.mock_groups[key].uid = group.uid
                                  THEN [group EXCEPT !.members = list_remove(@, uid)]
                                  ELSE fw.mock_groups[key]]],
                          TRUE)
             ELSE returns(fw, FALSE)

\* TestFirewall.remove_ip_from_rule
remove_ip_from_rule(fw, rule_id, ip_object_id) ==
    IF ~fw.connected THEN raises(fw, "ConnectionError")
    ELSE IF rule_id \notin DOMAIN fw.mock_rules THEN raises(fw, "ObjectNotFoundError")
    ELSE IF ip_object_id \notin DOMAIN fw.mock_ip_objects
    THEN raises(fw, "ObjectNotFoundError")
    ELSE LET rule == fw.mock_rules[rule_id]
             uid == fw.mock_ip_objects[ip_object_id].uid
         IN  returns([fw EXCEPT !.mock_rules =
                         [key \in DOMAIN fw.mock_rules |->
                             IF fw.mock_rules[key].uid = rule.uid
                             THEN [rule EXCEPT
                                     !.source = list_remove(@, uid),
                                     !.destination = list_remove(@, uid)]
                             ELSE fw.mock_rules[key]]],
                     uid \in Range(rule.source) \/ uid \in Range(rule.destination))

\* TestFirewall.delete_empty_group
delete_empty_group(fw, group_id) ==
    IF ~fw.connected THEN raises(fw, "ConnectionError")
    ELSE IF group_id \notin DOMAIN fw.mock_groups THEN raises(fw, "ObjectNotFoundError")
    ELSE IF Len(fw.mock_groups[group_id].members) > 0 THEN returns(fw, FALSE)
    ELSE returns([fw EXCEPT !.mock_groups =
                     without_uid(@, fw.mock_groups[group_id].uid)], TRUE)

\* TestFirewall.delete_empty_rule: "Consider a rule empty if it has no source
\* or no destination"
delete_empty_rule(fw, rule_id) ==
    IF ~fw.connected THEN raises(fw, "ConnectionError")
    ELSE IF rule_id \notin DOMAIN fw.mock_rules THEN raises(fw, "ObjectNotFoundError")
    ELSE IF /\ Len(fw.mock_rules[rule_id].source) > 0
            /\ Len(fw.mock_rules[rule_id].destination) > 0
    THEN returns(fw, FALSE)
    ELSE returns([fw EXCEPT !.mock_rules =
                     without_uid(@, fw.mock_rules[rule_id].uid)], TRUE)

\* TestFirewall.delete_ip_object
delete_ip_object(fw, ip_object_id) ==
    IF ~fw.connected THEN raises(fw, "ConnectionError")
    ELSE IF ip_object_id \notin DOMAIN fw.mock_ip_objects
    THEN raises(fw, "ObjectNotFoundError")
    ELSE LET dependencies == get_dependencies(fw, ip_object_id) IN
         IF Len(dependencies.groups) > 0 \/ Len(dependencies.rules) > 0
         THEN returns(fw, FALSE)
         ELSE returns([fw EXCEPT !.mock_ip_objects =
                          without_uid(@, fw.mock_ip_objects[ip_object_id].uid)], TRUE)

\* the result dict delete_ip_object_with_dependencies starts from
new_result ==
    [success |-> FALSE, ip_object_deleted |-> FALSE,
     groups_modified |-> <<>>, groups_deleted |-> <<>>,
     rules_modified |-> <<>>, rules_deleted |-> <<>>, errors |-> <<>>]

\* one iteration of "Process group dependencies" on the connector and the
\* result dict
process_group(st, group_id, ip_object_id) ==
    LET removed == remove_ip_from_group(st.fw, group_id, ip_object_id) IN
    IF raised(removed)
    THEN [st EXCEPT !.result.errors = Append(@, <<"Error processing group", group_id>>)]
    ELSE
    LET modified == [fw |-> removed.fw,
                     result |-> [st.result EXCEPT
                                    !.groups_modified = Append(@, group_id)]]
    IN  IF /\ group_id \in DOMAIN removed.fw.mock_groups
           /\ Len(removed.fw.mock_groups[group_id].members) = 0
        THEN LET deleted == delete_empty_group(removed.fw, group_id) IN
             IF raised(deleted)
             THEN [modified EXCEPT
                     !.result.errors = Append(@, <<"Error processing group", group_id>>)]
             ELSE [fw |-> deleted.fw,
                   result |-> [modified.result EXCEPT
                                  !.groups_deleted = Append(@, group_id)]]
        ELSE modified

\* one iteration of "Process rule dependencies"
process_rule(st, rule_id, ip_object_id) ==
    LET removed == remove_ip_from_rule(st.fw, rule_id, ip_object_id) IN
    IF raised(removed)
    THEN [st EXCEPT !.result.errors = Append(@, <<"Error processing rule", rule_id>>)]
    ELSE
    LET modified == [fw |-> removed.fw,
                     result |-> [st.result EXCEPT
                                    !.rules_modified = Append(@, rule_id)]]
    IN  IF /\ rule_id \in DOMAIN removed.fw.mock_rules
           /\ Len(removed.fw.mock_rules[rule_id].source) = 0
           /\ Len(removed.fw.mock_rules[rule_id].destination) = 0
        THEN LET deleted == delete_empty_rule(removed.fw, rule_id) IN
             IF raised(deleted)
             THEN [modified EXCEPT
                     !.result.errors = Append(@, <<"Error processing rule", rule_id>>)]
             ELSE [fw |-> deleted.fw,
                   result |-> [modified.result EXCEPT
                                  !.rules_deleted = Append(@, rule_id)]]
        ELSE modified

\* the loop over dependencies["groups"], from position k on
RECURSIVE process_groups(_, _, _, _)
process_groups(st, groups, k, ip_object_id) ==
    IF k > Len(groups) THEN st
    ELSE process_groups(process_group(st, groups[k], ip_object_id),
                        groups, k + 1, ip_object_id)

\* the loop over dependencies["rules"], from position k on
RECURSIVE process_rules(_, _, _, _)
process_rules(st, rules, k, ip_object_id) ==
    IF k > Len(rules) THEN st
    ELSE process_rules(process_rule(st, rules[k], ip_object_id),
                       rules, k + 1, ip_object_id)

\* FirewallConnector.delete_ip_object_with_dependencies on a TestFirewall:
\* the connector afterwards and the result dict
delete_ip_object_with_dependencies(fw, ip_object_id, auto_commit) ==
    IF ~fw.connected \/ ip_object_id \notin DOMAIN fw.mock_ip_objects
    THEN \* ConnectionError or ObjectNotFoundError, caught by the outer except
         returns(fw, [new_result EXCEPT
                        !.errors = <<<<"Error deleting IP object", ip_object_id>>>>])
    ELSE
    LET dependencies == get_dependencies(fw, ip_object_id)
        afterGroups == process_groups([fw |-> fw, result |-> new_result],
                                      dependencies.groups, 1, ip_object_id)
        afterRules == process_rules(afterGroups, dependencies.rules, 1, ip_object_id)
        deleted == delete_ip_object(afterRules.fw, ip_object_id)
        ip_object_deleted == deleted.value = TRUE
    IN  returns(deleted.fw,
                [afterRules.result EXCEPT
                    !.ip_object_deleted = ip_object_deleted,
                    !.success = ip_object_deleted
                                /\ Len(afterRules.result.errors) = 0])

\* a call on the connector: the object afterwards and what the caller gets
Called(op, args, outcome) ==
    /\ firewall # None
    /\ firewall' = outcome.fw
    /\ firewall_ret' = [op |-> op, args |-> args, value |-> outcome.value]
    /\ UNCHANGED storeVars
    /\ UNCHANGED callVars

\* TestFirewall.connect
Connect(username) ==
    Called("connect", <<username>>,
           IF username = "fail" THEN raises(firewall, "AuthenticationError")
           ELSE returns([firewall EXCEPT !.connected = TRUE], TRUE))

\* TestFirewall.disconnect
Disconnect ==
    Called("disconnect", <<>>, returns([firewall EXCEPT !.connected = FALSE], TRUE))

RemoveIpFromGroup(group_id, ip_object_id) ==
    Called("remove_ip_from_group", <<group_id, ip_object_id>>,
           remove_ip_from_group(firewall, group_id, ip_object_id))

RemoveIpFromRule(rule_id, ip_object_id) ==
    Called("remove_ip_from_rule", <<rule_id, ip_object_id>>,
           remove_ip_from_rule(firewall, rule_id, ip_object_id))

DeleteEmptyGroup(group_id) ==
    Called("delete_empty_group", <<group_id>>, delete_empty_group(firewall, group_id))

DeleteEmptyRule(rule_id) ==
    Called("delete_empty_rule", <<rule_id>>, delete_empty_rule(firewall, rule_id))

DeleteIpObject(ip_object_id) ==
    Called("delete_ip_object", <<ip_object_id>>, delete_ip_object(firewall, ip_object_id))

DeleteIpObjectWithDependencies(ip_object_id, auto_commit) ==
    Called("delete_ip_object_with_dependencies", <<ip_object_id, auto_commit>>,
           delete_ip_object_with_dependencies(firewall, ip_object_id, auto_commit))

(***************************************************************************)
(* Specification of the store writes                                       *)
(***************************************************************************)
\* a call that has not started
IdleCall ==
    /\ pc = "idle"
    /\ source_ip_or_network = None
    /\ destination_ip_or_network = None
    /\ dest_net = None
    /\ current_device_id = 0
    /\ visited_devices = <<>>
    /\ current_ip_or_network = None
    /\ result = None
    /\ natLookups = <<>>
    /\ routeLookups = <<>>
    /\ ret = None

\* no firewall connector has been constructed
NoFirewall ==
    /\ firewall = None
    /\ firewall_ret = None

\* the empty database
Init ==
    /\ devices = <<>>
    /\ interfaces = <<>>
    /\ routes = <<>>
    /\ nat_mappings = <<>>
    /\ nextId = [Device |-> 1, Interface |-> 1, Route |-> 1, NATMapping |-> 1]
    /\ lastOp = [op |-> "none", outcome |-> "ok"]
    /\ IdleCall
    /\ NoFirewall

Next ==
    \/ \E d \in 1..Cardinality(DeviceNames), n \in InterfaceNames, ip \in WriteIPs,
          net \in WriteNetworks, st \in Statuses :
          CreateInterface(d, n, ip, net, st)
    \/ \E d \in DeviceNames, n \in InterfaceNames, ip \in WriteIPs,
          net \in WriteNetworks, st \in Statuses :
          IngestInterface(d, n, ip, net, st)
    \/ \E d \in 1..Cardinality(DeviceNames), dst \in WriteDestinations,
          gw \in WriteGateways, t \in RouteTypes, m \in Metrics :
          CreateRoute(d, dst, gw, t, m)
    \/ \E d \in DeviceNames, dst \in WriteDestinations,
          gw \in WriteGateways, t \in RouteTypes, m \in Metrics :
          IngestRoute(d, dst, gw, t, m)

Spec == Init /\ [][Next]_vars

\* the ingestion calls alone
NextIngest ==
    \/ \E d \in DeviceNames, n \in InterfaceNames, ip \in WriteIPs,
          net \in WriteNetworks, st \in Statuses :
          IngestInterface(d, n, ip, net, st)
    \/ \E d \in DeviceNames, dst \in WriteDestinations,
          gw \in WriteGateways, t \in RouteTypes, m \in Metrics :
          IngestRoute(d, dst, gw, t, m)

SpecIngest == Init /\ [][NextIngest]_vars

(***************************************************************************)
(* Specification of the routing calls: the databases they run on           *)
(***************************************************************************)
\* most interfaces of the topology that are down
MaxDown == 1

\* most Route rows of a database
MaxRouteRows == 3

\* most NATMapping rows of a database
MaxNatRows == 1

\* router1 -(10.0.0.0/24)- router2 -(10.1.0.0/24)- router3
TopologyDevices ==
    <<[id |-> 1, name |-> "router1"],
      [id |-> 2, name |-> "router2"],
      [id |-> 3, name |-> "router3"]>>

InterfaceRow(id, device_id, name, ip_address, network) ==
    [id |-> id, device_id |-> device_id, name |-> name,
     ip_address |-> ip_address, network |-> network, status |-> "up"]

TopologyInterfaces ==
    <<InterfaceRow(1, 1, "eth1", Addr(192, 168, 1, 1), CidrText(Addr(192, 168, 1, 0), 24)),
      InterfaceRow(2, 1, "eth0", Addr(10, 0, 0, 1), CidrText(Addr(10, 0, 0, 0), 24)),
      InterfaceRow(3, 2, "eth0", Addr(10, 0, 0, 2), CidrText(Addr(10, 0, 0, 0), 24)),
      InterfaceRow(4, 2, "eth1", Addr(10, 1, 0, 1), CidrText(Addr(10, 1, 0, 0), 24)),
      InterfaceRow(5, 3, "eth0", Addr(10, 1, 0, 2), CidrText(Addr(10, 1, 0, 0), 24)),
      InterfaceRow(6, 3, "eth1", Addr(172, 16, 0, 1), CidrText(Addr(172, 16, 0, 0), 24))>>

RouteRow(id, device_id, destination_network, gateway_ip, type, metric) ==
    [id |-> id, source_device_id |-> device_id,
     destination_network |-> destination_network,
     gateway_ip |-> gateway_ip, type |-> type, metric |-> metric]

CandidateRoutes ==
    <<RouteRow(1, 1, CidrText(Addr(172, 16, 0, 0), 24), Addr(10, 0, 0, 2), "static", 20),
      RouteRow(2, 2, CidrText(Addr(172, 16, 0, 0), 24), Addr(10, 1, 0, 2), "static", 10),
      RouteRow(3, 2, CidrText(Addr(172, 16, 0, 0), 16), Addr(10, 0, 0, 1), "static", 10),
      RouteRow(4, 1, CidrText(Addr(0, 0, 0, 0), 0), Addr(10, 0, 0, 254), "static", 1),
      RouteRow(5, 1, CidrText(Addr(172, 16, 0, 0), 24), None, "connected", 0)>>

NatRow(id, device_id, logical, real, type) ==
    [id |-> id, device_id |-> device_id, logical_ip_or_network |-> logical,
     real_ip_or_network |-> real, type |-> type]

CandidateNats ==
    <<NatRow(1, 3, IPText(Addr(200, 1, 1, 1)), IPText(Addr(172, 16, 0, 10)), "destination"),
      NatRow(2, 1, CidrText(Addr(192, 168, 1, 0), 24), IPText(Addr(100, 64, 0, 0)), "source"),
      NatRow(3, 3, CidrText(Addr(172, 16, 0, 0), 24), IPText(Addr(255, 255, 255, 250)), "destination"),
      NatRow(4, 1, CidrText(Addr(192, 168, 1, 77), 24), IPText(Addr(0, 0, 0, 9)), "source"),
      NatRow(5, 3, CidrText(Addr(172, 16, 0, 0), 24), IPText(Addr(10, 1, 0, 0)), "destination")>>

\* the rows of u whose position is in S, in order
RECURSIVE Pick(_, _, _)
Pick(u, k, S) ==
    IF k > Len(u) THEN <<>>
    ELSE (IF k \in S THEN <<u[k]>> ELSE <<>>) \o Pick(u, k + 1, S)

\* the subsets of 1..n of at most m elements
SmallSubsets(n, m) == {S \in SUBSET (1..n) : Cardinality(S) <= m}

\* 192.168.1.5, 10.0.0.5, 10.0.0.0/8, 8.8.8.8
Sources ==
    {IPText(Addr(192, 168, 1, 5)), IPText(Addr(10, 0, 0, 5)),
     CidrText(Addr(10, 0, 0, 0), 8), IPText(Addr(8, 8, 8, 8))}

\* 172.16.0.10, 200.1.1.1, 192.168.1.10, 172.16.0.0/16, 172.16.0.0/24
Destinations ==
    {IPText(Addr(172, 16, 0, 10)), IPText(Addr(200, 1, 1, 1)),
     IPText(Addr(192, 168, 1, 10)), CidrText(Addr(172, 16, 0, 0), 16),
     CidrText(Addr(172, 16, 0, 0), 24)}

\* 192.168.1.5, 172.16.0.10, 200.1.1.1, 192.168.1.0/24
NatQueries ==
    {IPText(Addr(192, 168, 1, 5)), IPText(Addr(172, 16, 0, 10)),
     IPText(Addr(200, 1, 1, 1)), CidrText(Addr(192, 168, 1, 0), 24)}

NatTypes == {"source", "destination"}

\* the device ids the topology calls are made with: the three devices and
\* an id no device has
QueriedDeviceIds == 1..(Len(TopologyDevices) + 1)

\* 10.0.0.5, 10.0.0.1, 8.8.8.8, 10.0.0.0/16, 10.0.0.0/24, 10.0.0.0/25,
\* 172.16.0.0/16, 0.0.0.0/0
LookupQueries ==
    {IPText(Addr(10, 0, 0, 5)), IPText(Addr(10, 0, 0, 1)),
     IPText(Addr(8, 8, 8, 8)), CidrText(Addr(10, 0, 0, 0), 16),
     CidrText(Addr(10, 0, 0, 0), 24), CidrText(Addr(10, 0, 0, 0), 25),
     CidrText(Addr(172, 16, 0, 0), 16), CidrText(Addr(0, 0, 0, 0), 0)}

\* a database the writes can build: the topology with some interfaces down,
\* some of the candidate routes and some of the candidate NAT mappings
InitRoute ==
    /\ devices = TopologyDevices
    /\ \E Down \in SmallSubsets(Len(TopologyInterfaces), MaxDown) :
          interfaces = [k \in 1..Len(TopologyInterfaces) |->
                          IF k \in Down
                          THEN [TopologyInterfaces[k] EXCEPT !.status = "down"]
                          ELSE TopologyInterfaces[k]]
    /\ \E S \in SmallSubsets(Len(CandidateRoutes), MaxRouteRows) :
          routes = Pick(CandidateRoutes, 1, S)
    /\ \E S \in SmallSubsets(Len(CandidateNats), MaxNatRows) :
          nat_mappings = Pick(CandidateNats, 1, S)
    /\ nextId = [Device |-> Len(TopologyDevices) + 1,
                 Interface |-> Len(TopologyInterfaces) + 1,
                 Route |-> Len(CandidateRoutes) + 1,
                 NATMapping |-> Len(CandidateNats) + 1]
    /\ lastOp = [op |-> "none", outcome |-> "ok"]
    /\ IdleCall
    /\ NoFirewall

NextRoute ==
    \/ \E src \in Sources, dst \in Destinations : Begin(src, dst)
    \/ Hop
    \/ Finish
    \/ \E d \in 1..Len(TopologyDevices), q \in NatQueries, t \in NatTypes :
          FindNatMapping(d, q, t)
    \/ \E q \in LookupQueries : FindMatchingNetworks(q)
    \/ \E q \in LookupQueries : CheckSupernetConflicts(q)
    \/ \E b \in BOOLEAN : GenerateTopology(b)
    \/ \E d \in QueriedDeviceIds, b \in BOOLEAN : GetDeviceNetworks(d, b)
    \/ \E src \in Sources \cup {None}, dst \in Destinations \cup {None} :
          RoutingPathViewMissing(src, dst)
    \/ RoutingPathViewRespond

SpecRoute == InitRoute /\ [][NextRoute]_vars

(***************************************************************************)
(* Specification of the topology calls and of device deletion              *)
(***************************************************************************)
\* most Interface rows of a database of the topology calls
MaxTopologyInterfaces == 4

\* router1, router2 and router3 on 10.0.0.0/24, router1 with a second address
\* on it and a stub network, router2 with an interface whose network is
\* written with host bits (10.0.0.5/24)
CandidateInterfaces ==
    <<InterfaceRow(1, 1, "eth0", Addr(10, 0, 0, 1), CidrText(Addr(10, 0, 0, 0), 24)),
      InterfaceRow(2, 2, "eth0", Addr(10, 0, 0, 2), CidrText(Addr(10, 0, 0, 0), 24)),
      InterfaceRow(3, 3, "eth0", Addr(10, 0, 0, 3), CidrText(Addr(10, 0, 0, 0), 24)),
      InterfaceRow(4, 1, "eth1", Addr(192, 168, 1, 1), CidrText(Addr(192, 168, 1, 0), 24)),
      InterfaceRow(5, 2, "eth1", Addr(10, 0, 0, 5), CidrText(Addr(10, 0, 0, 5), 24)),
      InterfaceRow(6, 1, "eth0:1", Addr(10, 0, 0, 9), CidrText(Addr(10, 0, 0, 0), 24))>>

\* a database the writes can build: the three devices, some of the candidate
\* interfaces (some of them down), the first candidate routes and some of the
\* candidate NAT mappings
InitTopology ==
    /\ devices = TopologyDevices
    /\ \E S \in SmallSubsets(Len(CandidateInterfaces), MaxTopologyInterfaces) :
       \E Down \in SmallSubsets(Len(CandidateInterfaces), MaxDown) :
          /\ Down \subseteq S
          /\ interfaces = Pick([k \in 1..Len(CandidateInterfaces) |->
                                   IF k \in Down
                                   THEN [CandidateInterfaces[k] EXCEPT !.status = "down"]
                                   ELSE CandidateInterfaces[k]], 1, S)
    /\ routes = Pick(CandidateRoutes, 1, 1..MaxRouteRows)
    /\ \E S \in SmallSubsets(Len(CandidateNats), MaxNatRows) :
          nat_mappings = Pick(CandidateNats, 1, S)
    /\ nextId = [Device |-> Len(TopologyDevices) + 1,
                 Interface |-> Len(CandidateInterfaces) + 1,
                 Route |-> Len(CandidateRoutes) + 1,
                 NATMapping |-> Len(CandidateNats) + 1]
    /\ lastOp = [op |-> "none", outcome |-> "ok"]
    /\ IdleCall
    /\ NoFirewall

NextTopology ==
    \/ \E b \in BOOLEAN : GenerateTopology(b)
    \/ \E d \in QueriedDeviceIds, b \in BOOLEAN : GetDeviceNetworks(d, b)
    \/ \E d \in 1..Len(TopologyDevices) : DeleteDevice(d)

SpecTopology == InitTopology /\ [][NextTopology]_vars

(***************************************************************************)
(* Specification of the three ingestion calls                              *)
(***************************************************************************)
\* 192.168.1.0/24 and 192.168.1.0/33, a prefix length ipaddress rejects
WriteLogicals ==
    {CidrText(Addr(192, 168, 1, 0), 24), CidrText(Addr(192, 168, 1, 0), 33)}

\* 100.64.0.1
WriteReals == {IPText(Addr(100, 64, 0, 1))}

\* the three ingestion calls
NextIngestAll ==
    \/ \E d \in DeviceNames, n \in InterfaceNames, ip \in WriteIPs,
          net \in WriteNetworks, st \in Statuses :
          IngestInterface(d, n, ip, net, st)
    \/ \E d \in DeviceNames, dst \in WriteDestinations,
          gw \in WriteGateways, t \in RouteTypes, m \in Metrics :
          IngestRoute(d, dst, gw, t, m)
    \/ \E d \in DeviceNames, l \in WriteLogicals, r \in WriteReals :
          IngestNat(d, l, r, "source")

SpecIngestAll == Init /\ [][NextIngestAll]_vars

(***************************************************************************)
(* Specification of find_route_path with a concurrent device deletion      *)
(***************************************************************************)
NextConcurrent ==
    \/ \E src \in Sources, dst \in Destinations : Begin(src, dst)
    \/ Hop
    \/ Finish
    \/ \E d \in 1..Len(TopologyDevices) : DeleteDeviceDuringCall(d)

SpecConcurrent == InitRoute /\ [][NextConcurrent]_vars

(***************************************************************************)
(* Specification of find_route_path as a running call: a started call      *)
(* goes on to its next statement                                           *)
(***************************************************************************)
NextCall ==
    \/ \E src \in Sources, dst \in Destinations : Begin(src, dst)
    \/ Hop
    \/ Finish

SpecCallFair ==
    InitRoute /\ [][NextCall]_vars /\ WF_vars(Hop) /\ WF_vars(Finish)

\* the calls compared before and after a write: 192.168.1.5, 10.0.0.5 to
\* 172.16.0.10, 200.1.1.1, 172.16.0.0/24
ComparedSources == {IPText(Addr(192, 168, 1, 5)), IPText(Addr(10, 0, 0, 5))}

ComparedDestinations ==
    {IPText(Addr(172, 16, 0, 10)), IPText(Addr(200, 1, 1, 1)),
     CidrText(Addr(172, 16, 0, 0), 24)}

(***************************************************************************)
(* Specification of service calls before and after the deletion of a down  *)
(* interface                                                               *)
(***************************************************************************)
NextInterfaceEdit ==
    \/ \E b \in BOOLEAN : GenerateTopology(b)
    \/ \E d \in 1..Len(TopologyDevices), b \in BOOLEAN : GetDeviceNetworks(d, b)
    \/ \E q \in ComparedSources \cup ComparedDestinations : FindMatchingNetworks(q)
    \/ \E src \in ComparedSources, dst \in ComparedDestinations :
          FindRoutePath(src, dst)
    \/ \E k \in 1..Len(interfaces) :
          interfaces[k].status = "down" /\ DeleteInterface(interfaces[k].id)

SpecInterfaceEdit == InitRoute /\ [][NextInterfaceEdit]_vars

(***************************************************************************)
(* Specification of find_route_path before and after a change of a route's *)
(* metric                                                                  *)
(***************************************************************************)
\* the metric the routes are changed to
EditedMetrics == {100}

NextMetricEdit ==
    \/ \E src \in ComparedSources, dst \in ComparedDestinations :
          FindRoutePath(src, dst)
    \/ \E id \in 1..Len(CandidateRoutes), m \in EditedMetrics :
          UpdateRouteMetric(id, m)

SpecMetricEdit == InitRoute /\ [][NextMetricEdit]_vars

(***************************************************************************)
(* Specification of find_route_path before and after the deletion of a NAT *)
(* mapping                                                                 *)
(***************************************************************************)
NextNatEdit ==
    \/ \E src \in ComparedSources, dst \in ComparedDestinations :
          FindRoutePath(src, dst)
    \/ \E id \in 1..Len(CandidateNats) : DeleteNatMapping(id)

SpecNatEdit == InitRoute /\ [][NextNatEdit]_vars

(***************************************************************************)
(* Specification of the calls on a TestFirewall                            *)
(***************************************************************************)
\* the identifiers the calls are made with: names, uids and one that names
\* nothing
IPIdentifiers == {"Server1", "ip-2", "DevNetwork", "TestServer", "ip-4", "unknown"}

GroupIdentifiers == {"WebServers", "group-2", "unknown"}

RuleIdentifiers == {"rule-1", "AllowTestAccess", "unknown"}

Usernames == {"admin", "fail"}

\* a new TestFirewall next to an empty store
InitFirewall ==
    /\ devices = <<>>
    /\ interfaces = <<>>
    /\ routes = <<>>
    /\ nat_mappings = <<>>
    /\ nextId = [Device |-> 1, Interface |-> 1, Route |-> 1, NATMapping |-> 1]
    /\ lastOp = [op |-> "none", outcome |-> "ok"]
    /\ IdleCall
    /\ firewall = NewTestFirewall
    /\ firewall_ret = None

NextFirewall ==
    \/ \E u \in Usernames : Connect(u)
    \/ Disconnect
    \/ \E g \in GroupIdentifiers, ip \in IPIdentifiers : RemoveIpFromGroup(g, ip)
    \/ \E r \in RuleIdentifiers, ip \in IPIdentifiers : RemoveIpFromRule(r, ip)
    \/ \E g \in GroupIdentifiers : DeleteEmptyGroup(g)
    \/ \E r \in RuleIdentifiers : DeleteEmptyRule(r)
    \/ \E ip \in IPIdentifiers : DeleteIpObject(ip)
    \/ \E ip \in IPIdentifiers, c \in BOOLEAN : DeleteIpObjectWithDependencies(ip, c)

SpecFirewall == InitFirewall /\ [][NextFirewall]_vars

(***************************************************************************)
(* Properties                                                              *)
(***************************************************************************)
\* the call of find_route_path has returned a result dict
Returned == pc = "done" /\ "status" \in DOMAIN result

\* C1: every result returned by find_route_path, whatever the outcome,
\* contains the fields status, source, destination, path and nat_applied.
C1_ResultHasAllFields ==
    pc = "done" =>
        {"status", "source", "destination", "path", "nat_applied"} \subseteq DOMAIN result

C3_ConnectedIffNoGateway ==
    [][/\ \A r \in Range(routes') : (r.type = "connected") <=> (r.gateway_ip = None)
       /\ \/ lastOp'.outcome = "ValidationError" /\ routes' = routes
          \/ \A dst \in WriteDestinations, gw \in WriteGateways, t \in RouteTypes,
                m \in Metrics :
                ((t = "connected") # (gw = None)) =>
                   /\ \A d \in 1..Cardinality(DeviceNames) : ~CreateRoute(d, dst, gw, t, m)
                   /\ \A d \in DeviceNames : ~IngestRoute(d, dst, gw, t, m)
      ]_vars

\* the devices of the up-interfaces that match q, in store order (by the
\* definition of matching: an IP inside the network, a CIDR sharing addresses)
MatchingDevices(q) ==
    LET hit(i) ==
          LET n == i.network.len
              m == IF q.len < n THEN q.len ELSE n
          IN  IF q.slash
              THEN MaskAddr(q.addr, m) = MaskAddr(i.network.addr, m)
              ELSE MaskAddr(q.addr, n) = MaskAddr(i.network.addr, n)
        ups == SelectSeq(interfaces, LAMBDA i : i.status = "up" /\ hit(i))
    IN  [k \in 1..Len(ups) |-> ups[k].device_id]

\* q is a CIDR that strictly contains the network of an up-interface or of a route
HasSupernetConflict(q) ==
    LET inside(t) == /\ q.len < t.len
                     /\ MaskAddr(t.addr, q.len) = MaskAddr(q.addr, q.len)
    IN  /\ q.slash
        /\ \/ \E i \in Range(interfaces) : i.status = "up" /\ inside(i.network)
           \/ \E r \in Range(routes) : inside(r.destination_network)

\* the first match of the source and the first match of the destination are
\* on the same device
SameDeviceCall ==
    /\ pc = "done"
    /\ Len(MatchingDevices(source_ip_or_network)) > 0
    /\ Len(MatchingDevices(destination_ip_or_network)) > 0
    /\ MatchingDevices(source_ip_or_network)[1]
          = MatchingDevices(destination_ip_or_network)[1]

\* the result is a success with the single same-device entry and no NAT
SameDeviceResult ==
    /\ {"status", "path", "nat_applied"} \subseteq DOMAIN result
    /\ result.status = "success"
    /\ Len(result.path) = 1
    /\ result.path[1].device_id = MatchingDevices(source_ip_or_network)[1]
    /\ result.path[1].ingress_interface = None
    /\ result.path[1].egress_interface = None
    /\ result.path[1].next_hop = NoName
    /\ result.nat_applied = [source |-> FALSE, destination |-> FALSE]

\* C4 as stated: whenever the first up-interface matching src and the first
\* matching dst are on the same device, the result is the same-device success.
C4_SameDeviceAlwaysSucceeds == SameDeviceCall => SameDeviceResult

\* C4 (amended): whenever neither src nor dst has a supernet conflict and the
\* first up-interface matching src and the first matching dst are on the same
\* device, the result has status success, a path of exactly one entry for
\* that device with ingress, egress and next_hop absent, and no NAT applied.
C4_SameDeviceSucceeds ==
    (/\ SameDeviceCall
     /\ ~HasSupernetConflict(source_ip_or_network)
     /\ ~HasSupernetConflict(destination_ip_or_network)) => SameDeviceResult

\* C4 witness: a same-device call without conflict has returned
C4_Witness ==
    /\ SameDeviceCall
    /\ ~HasSupernetConflict(source_ip_or_network)
    /\ ~HasSupernetConflict(destination_ip_or_network)
    /\ result.path[1].note = "Source and destination are on the same device"

\* the device ids of a path, in order
PathDevices(path) == [k \in 1..Len(path) |-> path[k].device_id]

\* no element occurs twice in the sequence
NoRepeat(s) == \A j, k \in 1..Len(s) : s[j] = s[k] => j = k

\* C5: no device occurs twice in the path of a success result, and when the
\* chosen next hop leads to a device already visited the call returns status
\* error with the message "Routing loop detected".
C5_NoRepeatAndLoopReported ==
    [][/\ (pc' = "done" /\ "status" \in DOMAIN result' /\ result'.status = "success")
             => NoRepeat(PathDevices(result'.path))
       /\ (pc = "loop" /\ current_device_id \in Range(visited_devices))
             => /\ pc' = "done"
                /\ result'.status = "error"
                /\ result'.message.text = "Routing loop detected"
      ]_vars

\* C5 witness: a next hop led back to a visited device and the loop error
\* was returned
C5_Witness ==
    /\ Returned
    /\ "message" \in DOMAIN result
    /\ result.message.text = "Routing loop detected"
    /\ Len(visited_devices) > 1
    /\ current_device_id # visited_devices[Len(visited_devices)]

\* the device has an up-interface whose network is n
OnNetwork(device_id, n) ==
    \E i \in Range(interfaces) :
        /\ i.device_id = device_id
        /\ i.status = "up"
        /\ i.network.len = n.len
        /\ MaskAddr(i.network.addr, n.len) = MaskAddr(n.addr, n.len)

\* C6: in every successful multi-hop result, each two consecutive devices of
\* the path both have an up-interface on one common network, and that
\* network contains the gateway of the route chosen on the earlier device.
C6_ConsecutiveDevicesShareNetwork ==
    (Returned /\ result.status = "success" /\ Len(result.path) > 1) =>
        \A k \in 1..(Len(result.path) - 1) :
            \E i \in Range(interfaces) :
                /\ OnNetwork(result.path[k].device_id, i.network)
                /\ OnNetwork(result.path[k + 1].device_id, i.network)
                /\ result.path[k].route.gateway # None
                /\ MaskAddr(result.path[k].route.gateway, i.network.len)
                      = MaskAddr(i.network.addr, i.network.len)

\* R + (P - base) modulo 2^32
Translate32(R, P, base) ==
    LET lo == R[2] + P[2] - base[2]
        hi == R[1] + P[1] - base[1] + (lo \div 65536)
    IN  <<hi % 65536, lo % 65536>>

\* the mappings of the device and type whose logical side matches q, in order
LogicalMatches(device_id, q, nat_type) ==
    LET hit(n) ==
          LET L == n.logical_ip_or_network
              m == IF q.len < L.len THEN q.len ELSE L.len
          IN  /\ n.device_id = device_id
              /\ n.type = nat_type
              /\ IF L.slash
                 THEN MaskAddr(q.addr, m) = MaskAddr(L.addr, m)
                 ELSE ~q.slash /\ q.addr = L.addr
    IN  SelectSeq(nat_mappings, hit)

\* C7: when the matching mapping has a CIDR logical side L containing the
\* queried IP P and a single-IP real side R, find_nat_mapping returns the
\* translated address (R + (P - L.base)) mod 2^32.
C7_TranslationWraps32 ==
    (pc = "returned" /\ ret.op = "find_nat_mapping") =>
        LET q == ret.args[2]
            ms == LogicalMatches(ret.args[1], q, ret.args[3])
        IN  (/\ Len(ms) > 0
             /\ ms[1].logical_ip_or_network.slash
             /\ ~q.slash
             /\ ~ms[1].real_ip_or_network.slash) =>
               /\ ret.value # None
               /\ "translated" \in DOMAIN ret.value
               /\ ret.value.translated =
                     IPText(Translate32(ms[1].real_ip_or_network.addr, q.addr,
                                        MaskAddr(ms[1].logical_ip_or_network.addr,
                                                 ms[1].logical_ip_or_network.len)))

\* the three-router topology with all interfaces up, the static routes of
\* router1 and router2 to 172.16.0.0/24 and the destination NAT mapping of
\* router3 (logical 200.1.1.1, real 172.16.0.10)
ScenarioS4 ==
    /\ interfaces = TopologyInterfaces
    /\ routes = <<CandidateRoutes[1], CandidateRoutes[2]>>
    /\ nat_mappings = <<CandidateNats[1]>>

\* C8: in that scenario find_route_path("192.168.1.5", "200.1.1.1") returns
\* nat_applied.destination = true and the hop simulation looks up routes for
\* 172.16.0.10 instead of 200.1.1.1.
C8_DestinationNatRewrites ==
    (/\ ScenarioS4
     /\ pc = "done"
     /\ source_ip_or_network = IPText(Addr(192, 168, 1, 5))
     /\ destination_ip_or_network = IPText(Addr(200, 1, 1, 1))) =>
        /\ "nat_applied" \in DOMAIN result
        /\ result.nat_applied.destination
        /\ Len(routeLookups) > 0
        /\ \A k \in 1..Len(routeLookups) :
              routeLookups[k].ip_or_network = IPText(Addr(172, 16, 0, 10))

\* the result is an error with the given message text
ErrorWith(text) ==
    /\ {"status", "message"} \subseteq DOMAIN result
    /\ result.status = "error"
    /\ result.message.text = text

\* C9: validation runs in a fixed order and the first failing check alone
\* determines the error: a supernet conflict of src, then one of dst, then
\* src matching no up-interface, then dst matching none; in all four cases
\* no NAT lookup is made and no hop is recorded.
C9_ValidationOrder ==
    LET src == source_ip_or_network
        dst == destination_ip_or_network
        srcConflict == HasSupernetConflict(src)
        dstConflict == HasSupernetConflict(dst)
        srcFound == Len(MatchingDevices(src)) > 0
        dstFound == Len(MatchingDevices(dst)) > 0
    IN  pc = "done" =>
        /\ srcConflict =>
              /\ ErrorWith("Source conflicts with more specific networks")
              /\ "conflicts" \in DOMAIN result /\ Len(result.conflicts) > 0
        /\ (~srcConflict /\ dstConflict) =>
              /\ ErrorWith("Destination conflicts with more specific networks")
              /\ "conflicts" \in DOMAIN result /\ Len(result.conflicts) > 0
        /\ (~srcConflict /\ ~dstConflict /\ ~srcFound) =>
              ErrorWith("Source not found in any known network")
        /\ (~srcConflict /\ ~dstConflict /\ srcFound /\ ~dstFound) =>
              ErrorWith("Destination not found in any known network")
        /\ (srcConflict \/ dstConflict \/ ~srcFound \/ ~dstFound) =>
              /\ natLookups = <<>>
              /\ routeLookups = <<>>
              /\ "path" \in DOMAIN result => result.path = <<>>
        /\ (~srcConflict /\ ~dstConflict /\ srcFound /\ dstFound) =>
              ("message" \in DOMAIN result =>
                  result.message.text \notin
                     {"Source conflicts with more specific networks",
                      "Destination conflicts with more specific networks",
                      "Source not found in any known network",
                      "Destination not found in any known network"})

\* C9 witness: the source has a supernet conflict and the destination too,
\* and the call has returned the error of the source
C9_Witness ==
    /\ pc = "done"
    /\ HasSupernetConflict(source_ip_or_network)
    /\ HasSupernetConflict(destination_ip_or_network)
    /\ ErrorWith("Source conflicts with more specific networks")

\* no route of the device being simulated matches the working destination
NoMatchingRoute ==
    LET q == current_ip_or_network IN
    \A r \in Range(routes) :
        r.source_device_id = current_device_id =>
            LET t == r.destination_network
                m == IF q.len < t.len THEN q.len ELSE t.len
            IN  IF q.slash
                THEN MaskAddr(q.addr, m) # MaskAddr(t.addr, m)
                ELSE ~IsV4(q.addr) \/ MaskAddr(q.addr, t.len) # MaskAddr(t.addr, t.len)

\* C10: when the device being simulated has no route matching the working
\* destination, the call returns status error with a message starting
\* "No route found", and path holds exactly the hops of the devices visited
\* before it, in visiting order.
C10_NoRouteKeepsPath ==
    [][(pc = "loop" /\ loop_condition /\ NoMatchingRoute) =>
          /\ pc' = "done"
          /\ result'.status = "error"
          /\ result'.message.text = "No route found on device"
          /\ result'.message.args[1] = DeviceById(current_device_id).name
          /\ PathDevices(result'.path) = visited_devices
          /\ result'.path = result.path
      ]_vars

\* C10 witness: the call failed for want of a route on the second device
\* and returned the hop of the first
C10_Witness ==
    /\ Returned
    /\ ErrorWith("No route found on device")
    /\ Len(result.path) = 1
    /\ Len(visited_devices) = 2
    /\ result.path[1].device_id = visited_devices[1]

\* the call is scenario S2: every interface up, router1 and router2 each
\* with the static route to 172.16.0.0/24, no NAT mapping, from 192.168.1.5
\* to 172.16.0.10
ScenarioS2 ==
    /\ pc = "done"
    /\ \A i \in Range(interfaces) : i.status = "up"
    /\ routes = <<CandidateRoutes[1], CandidateRoutes[2]>>
    /\ nat_mappings = <<>>
    /\ source_ip_or_network = IPText(Addr(192, 168, 1, 5))
    /\ destination_ip_or_network = IPText(Addr(172, 16, 0, 10))

\* the result is a success whose path has more than one entry
MultiHopSuccess ==
    /\ Returned
    /\ result.status = "success"
    /\ Len(result.path) > 1

\* C11: in every successful multi-hop result the path starts with the device
\* of the first source match, ends with a "Destination reached" entry for the
\* device of the first destination match, and the next_hop of each non-final
\* entry names the device of the entry after it; in scenario S2 the path
\* devices are router1, router2, router3 in that order.
C11_PathIsChained ==
    /\ MultiHopSuccess =>
          LET path == result.path IN
          /\ path[1].device_id = MatchingDevices(source_ip_or_network)[1]
          /\ path[Len(path)].device_id = MatchingDevices(destination_ip_or_network)[1]
          /\ path[Len(path)].note = "Destination reached"
          /\ \A k \in 1..(Len(path) - 1) :
                /\ path[k].next_hop = path[k + 1].device
                /\ DeviceById(path[k + 1].device_id).name = path[k + 1].device
    /\ ScenarioS2 =>
          /\ MultiHopSuccess
          /\ [k \in 1..Len(result.path) |-> result.path[k].device]
                = <<"router1", "router2", "router3">>

\* C11 witness: scenario S2 has returned its three-entry path
C11_Witness ==
    /\ ScenarioS2
    /\ MultiHopSuccess
    /\ PathDevices(result.path) = <<1, 2, 3>>

\* the CIDR text t names a network strictly inside the network of the CIDR q
StrictlyInside(t, q) ==
    /\ q.len < t.len
    /\ MaskAddr(t.addr, q.len) = MaskAddr(q.addr, q.len)

\* a direct call of the named lookup has returned
LookupReturned(op) == pc = "returned" /\ ret.op = op

C13_MatchesAreContainingNetworks ==
    LookupReturned("find_matching_networks") =>
        LET q == ret.args[1]
            hit(i) ==
              LET n == i.network.len
                  m == IF q.len < n THEN q.len ELSE n
              IN  IF q.slash
                  THEN MaskAddr(q.addr, m) = MaskAddr(i.network.addr, m)
                  ELSE MaskAddr(q.addr, n) = MaskAddr(i.network.addr, n)
            ups == SelectSeq(interfaces, LAMBDA i : i.status = "up" /\ hit(i))
        IN  /\ Len(ret.value) = Len(ups)
            /\ \A k \in 1..Len(ups) :
                  /\ ret.value[k].interface_id = ups[k].id
                  /\ ret.value[k].device_id = ups[k].device_id
                  /\ ret.value[k].network = ups[k].network
                  /\ ~q.slash =>
                        /\ ret.value[k].relationship =
                              IF q.addr = ups[k].ip_address
                              THEN "exact_ip_match" ELSE "contains_ip"
                        /\ MaskAddr(q.addr, ret.value[k].network.len)
                              = MaskAddr(ret.value[k].network.addr,
                                         ret.value[k].network.len)

\* C13 witness: an IP query returned an exact_ip_match entry followed by a
\* contains_ip entry while an interface of the store is down
C13_Witness ==
    /\ LookupReturned("find_matching_networks")
    /\ ~ret.args[1].slash
    /\ Len(ret.value) = 2
    /\ ret.value[1].relationship = "exact_ip_match"
    /\ ret.value[2].relationship = "contains_ip"
    /\ \E i \in Range(interfaces) : i.status = "down"

\* C14: find_nat_mapping(device, q, type) returns the first mapping, in
\* insertion order, among the mappings of that device and that type whose
\* logical side matches q (a CIDR logical overlapping a CIDR q or containing
\* an IP q; a single-IP logical only for an IP q equal to it, returned without
\* a translated field); it never returns a mapping of another device or of
\* the other type, and returns nothing when none matches.
C14_FirstMatchingMapping ==
    LookupReturned("find_nat_mapping") =>
        LET ms == LogicalMatches(ret.args[1], ret.args[2], ret.args[3]) IN
        IF Len(ms) = 0 THEN ret.value = None
        ELSE /\ ret.value # None
             /\ ret.value.nat_id = ms[1].id
             /\ ret.value.device = DeviceById(ret.args[1]).name
             /\ ret.value.type = ret.args[3]
             /\ ~ms[1].logical_ip_or_network.slash =>
                   "translated" \notin DOMAIN ret.value

\* the device has an up-interface whose network is n
HasUpInterfaceOn(device_id, n) ==
    \E i \in Range(interfaces) :
        i.device_id = device_id /\ i.status = "up" /\ i.network = n

\* the networks of the up-interfaces
UpNetworks == {i.network : i \in {j \in Range(interfaces) : j.status = "up"}}

C16_DeviceNetworks ==
    LookupReturned("get_device_networks") =>
        LET d == ret.args[1]
            include_stubs == ret.args[2]
            expected == {n \in UpNetworks :
                           /\ HasUpInterfaceOn(d, n)
                           /\ \/ include_stubs
                              \/ \E e \in Range(devices) :
                                    e.id # d /\ HasUpInterfaceOn(e.id, n)}
        IN  IF \A e \in Range(devices) : e.id # d
            THEN ret.value.exception = "ValidationError"
            ELSE LET listed == [k \in 1..Len(ret.value) |-> ret.value[k].network]
                 IN  /\ NoRepeat(listed)
                     /\ Range(listed) = expected

\* C16 witness: without stubs the call returned one network of a device that
\* has two interfaces on it and a stub network besides
C16_Witness ==
    /\ LookupReturned("get_device_networks")
    /\ DeviceIdExists(ret.args[1])
    /\ ~ret.args[2]
    /\ Len(ret.value) = 1
    /\ Len(ret.value[1].interfaces) = 2
    /\ \E n \in UpNetworks :
          HasUpInterfaceOn(ret.args[1], n) /\ n # ret.value[1].network

\* the view has answered a request
Responded == pc = "responded" /\ ret.op = "RoutingPathView.get"

\* C17: a GET /routing-path request whose path-finding ends in an error
\* result (endpoint not found, supernet conflict, no route, no next hop,
\* routing loop) is answered with HTTP 400 and a serialized body whose status
\* is error; a request missing source or destination is answered with 400; a
\* successful path-finding is answered with 200.
C17_ErrorsAnswered400 ==
    Responded =>
        IF ret.args[1] = None \/ ret.args[2] = None
        THEN ret.value.status_code = 400
        ELSE IF "status" \in DOMAIN result /\ result.status = "error"
             THEN /\ ret.value.status_code = 400
                  /\ "data" \in DOMAIN ret.value
                  /\ ret.value.data.status = "error"
        ELSE IF "status" \in DOMAIN result /\ result.status = "success"
             THEN ret.value.status_code = 200
        ELSE TRUE

\* the identity tuples of the Interface rows, in store order
InterfaceIdentities(rows) ==
    [k \in 1..Len(rows) |-> <<rows[k].device_id, rows[k].name, rows[k].ip_address>>]

\* the identity tuples of the Route rows, in store order
RouteIdentities(rows) ==
    [k \in 1..Len(rows) |->
        <<rows[k].source_device_id, rows[k].destination_network, rows[k].gateway_ip>>]

\* the table after the step is the table before it with at most one row
\* appended, every earlier row keeping its id
RowsKept(before, after) ==
    /\ Len(after) \in {Len(before), Len(before) + 1}
    /\ \A k \in 1..Len(before) : after[k].id = before[k].id

\* C18: after any sequence of ingest_interface_data and ingest_route_data
\* calls no two Interfaces share (device, name, ip_address) and no two Routes
\* share (device, destination_network, gateway_ip), an absent gateway
\* included; ingesting an identity that already exists updates the non-key
\* fields of the existing entity instead of adding a second one.
C18_IngestKeepsIdentitiesUnique ==
    [][/\ NoRepeat(InterfaceIdentities(interfaces'))
       /\ NoRepeat(RouteIdentities(routes'))
       /\ RowsKept(interfaces, interfaces')
       /\ RowsKept(routes, routes')
       /\ InterfaceIdentities(interfaces')
             = InterfaceIdentities(interfaces) \o
                  SubSeq(InterfaceIdentities(interfaces'),
                         Len(interfaces) + 1, Len(interfaces'))
       /\ RouteIdentities(routes')
             = RouteIdentities(routes) \o
                  SubSeq(RouteIdentities(routes'), Len(routes) + 1, Len(routes'))
       /\ (lastOp'.op = "ingest_interface_data" /\ lastOp'.outcome = "ok") =>
             \A d \in DeviceNames, n \in InterfaceNames, ip \in WriteIPs,
                net \in WriteNetworks, st \in Statuses :
                (/\ \E k \in 1..Len(interfaces) :
                       /\ DeviceExists(d)
                       /\ DeviceById(interfaces[k].device_id).name = d
                       /\ interfaces[k].name = n
                       /\ interfaces[k].ip_address = ip
                 /\ IngestInterface(d, n, ip, net, st)) =>
                   /\ Len(interfaces') = Len(interfaces)
                   /\ \A k \in 1..Len(interfaces) :
                         IF /\ DeviceById(interfaces[k].device_id).name = d
                            /\ interfaces[k].name = n
                            /\ interfaces[k].ip_address = ip
                         THEN interfaces'[k] = [interfaces[k] EXCEPT
                                                  !.network = net, !.status = st]
                         ELSE interfaces'[k] = interfaces[k]
       /\ (lastOp'.op = "ingest_route_data" /\ lastOp'.outcome = "ok") =>
             \A d \in DeviceNames, dst \in WriteDestinations, gw \in WriteGateways,
                t \in RouteTypes, m \in Metrics :
                (/\ \E k \in 1..Len(routes) :
                       /\ DeviceExists(d)
                       /\ DeviceById(routes[k].source_device_id).name = d
                       /\ routes[k].destination_network = dst
                       /\ routes[k].gateway_ip = gw
                 /\ IngestRoute(d, dst, gw, t, m)) =>
                   /\ Len(routes') = Len(routes)
                   /\ \A k \in 1..Len(routes) :
                         IF /\ DeviceById(routes[k].source_device_id).name = d
                            /\ routes[k].destination_network = dst
                            /\ routes[k].gateway_ip = gw
                         THEN routes'[k] = [routes[k] EXCEPT !.type = t, !.metric = m]
                         ELSE routes'[k] = routes[k]
      ]_vars

\* C18 witness: the last ingest updated the one route, which has no gateway,
\* in a store that holds an interface too
C18_Witness ==
    /\ lastOp.op = "ingest_route_data"
    /\ lastOp.outcome = "ok"
    /\ ~lastOp.created
    /\ Len(routes) = 1
    /\ routes[1].gateway_ip = None
    /\ nextId.Interface = 2
    /\ Len(interfaces) = 1

\* the rows of a table that the device does not own
RowsOfOthers(rows, device_id) ==
    SelectSeq(rows, LAMBDA r : r.device_id # device_id)

\* the Route rows that the device does not own
RoutesOfOthers(rows, device_id) ==
    SelectSeq(rows, LAMBDA r : r.source_device_id # device_id)

\* C19: after a Device is deleted, no Interface, Route or NATMapping owned by
\* that device remains in the store, and the entities owned by other devices
\* are unchanged.
C19_DeleteCascades ==
    [][\A d \in Range(devices) :
          (d \notin Range(devices')) =>
             /\ devices' = SelectSeq(devices, LAMBDA e : e # d)
             /\ \A i \in Range(interfaces') : i.device_id # d.id
             /\ \A r \in Range(routes') : r.source_device_id # d.id
             /\ \A n \in Range(nat_mappings') : n.device_id # d.id
             /\ interfaces' = RowsOfOthers(interfaces, d.id)
             /\ routes' = RoutesOfOthers(routes, d.id)
             /\ nat_mappings' = RowsOfOthers(nat_mappings, d.id)
      ]_vars

\* C19 witness: router1 has been deleted with its route, and interfaces,
\* routes and a NAT mapping of the other devices are still stored
C19_Witness ==
    /\ lastOp.op = "Device.delete"
    /\ \A d \in Range(devices) : d.id # 1
    /\ CandidateRoutes[1] \notin Range(routes)
    /\ CandidateRoutes[2] \in Range(routes)
    /\ Len(interfaces) > 0
    /\ Len(nat_mappings) > 0

\* C20: no call of generate_topology, get_device_networks,
\* find_matching_networks, check_supernet_conflicts, find_nat_mapping or
\* find_route_path, whatever its arguments and outcome, adds, removes or
\* changes any Device, Interface, Route or NATMapping.
C20_ServicesAreReadOnly ==
    [][(pc' # pc \/ ret' # ret \/ result' # result) =>
          /\ devices' = devices
          /\ interfaces' = interfaces
          /\ routes' = routes
          /\ nat_mappings' = nat_mappings
      ]_vars

\* C20 witness: a find_route_path call with a NAT lookup and route lookups
\* on two devices has returned from a store holding rows of every kind
C20_Witness ==
    /\ Returned
    /\ Len(natLookups) = 2
    /\ Len(routeLookups) = 2
    /\ Len(interfaces) > 0
    /\ Len(routes) > 0
    /\ Len(nat_mappings) > 0

\* C21: when store writes (upserts, device deletion) interleave with a
\* running find_route_path, the call returns the result it would return on
\* one single store state that existed during the call; in particular it
\* never aborts on a device that disappeared between two of its reads. On a
\* single store state every Interface has its Device (deletion cascades), so
\* no such result is "Device with ID ... not found" or Device.DoesNotExist.
C21_NoAbortOnVanishedDevice ==
    pc = "done" =>
        /\ "status" \in DOMAIN result
        /\ ~(result.status = "error"
             /\ result.message.text = "Device with ID not found")

\* C22: find_route_path terminates on every finite store, including stores
\* whose routes form a cycle: the hop loop runs at most one iteration per
\* distinct device, so the number of iterations is at most the number of
\* Devices and path never has more entries than there are Devices.
C22_Terminates ==
    /\ [](/\ NoRepeat(visited_devices)
          /\ Len(visited_devices) <= Len(devices)
          /\ Len(routeLookups) <= Len(visited_devices)
          /\ ("path" \in DOMAIN result => Len(result.path) <= Len(devices)))
    /\ (pc = "loop") ~> (pc = "done")

\* C22 witness: a call on a store whose routes form a cycle has returned
\* after one iteration on each of the two devices of the cycle
C22_Witness ==
    /\ Returned
    /\ ErrorWith("Routing loop detected")
    /\ Len(visited_devices) = 2
    /\ Len(routeLookups) = 2

\* the result dict of the stepwise call is the value of the function
CallIsFunction ==
    pc = "done" =>
        result = find_route_path(source_ip_or_network, destination_ip_or_network)

\* the step is a service call that repeats the last one, op and arguments
RepeatedCall(op) ==
    /\ pc = "idle"
    /\ pc' = "returned"
    /\ ret # None
    /\ ret'.op = op
    /\ ret.op = op
    /\ ret'.args = ret.args

\* the only write since the last service call deleted a down interface
DownInterfaceDeleted ==
    /\ lastOp.op = "Interface.delete"
    /\ lastOp.deleted.status = "down"

\* C23: two stores that differ only in interfaces whose status is down give
\* identical results of generate_topology, get_device_networks,
\* find_matching_networks and find_route_path
C23_DownInterfacesInvisible ==
    [][\A op \in {"generate_topology", "get_device_networks",
                  "find_matching_networks", "find_route_path"} :
          RepeatedCall(op) /\ DownInterfaceDeleted => ret'.value = ret.value]_vars

\* the part of C23 about get_device_networks, find_matching_networks and
\* find_route_path
DownInterfacesInvisibleToLookups ==
    [][\A op \in {"get_device_networks", "find_matching_networks",
                  "find_route_path"} :
          RepeatedCall(op) /\ DownInterfaceDeleted => ret'.value = ret.value]_vars

\* the destination the hops of find_route_path(src, dst) look up
WorkingDestination(dst) ==
    working_destination(dst,
        find_nat_mapping(find_matching_networks(dst)[1].device_id, dst, "destination"))

\* positions of the Route rows of the device that match the destination
MatchingRoutes(device_id, q) ==
    {k \in 1..Len(routes) : /\ routes[k].source_device_id = device_id
                            /\ route_matches(routes[k], q)}

\* positions of the rows of greatest prefix length, and first among those
FirstLongest(device_id, q) ==
    {k \in MatchingRoutes(device_id, q) :
        \A j \in MatchingRoutes(device_id, q) :
           \/ routes[j].destination_network.len < routes[k].destination_network.len
           \/ /\ routes[j].destination_network.len = routes[k].destination_network.len
              /\ k <= j}

\* the hop entry carries the route of the row at position k
CarriesRoute(entry, k) ==
    entry.route = [network |-> routes[k].destination_network,
                   gateway |-> routes[k].gateway_ip,
                   type |-> routes[k].type]

\* the entries of a returned path that were appended by a hop
HopEntries(value) ==
    IF "path" \notin DOMAIN value THEN {}
    ELSE {k \in 1..Len(value.path) :
             /\ "route" \in DOMAIN value.path[k]
             /\ value.path[k].route # None}

LastHopRevisits ==
    /\ Len(result.path) > 0
    /\ result.path[Len(result.path)].next_hop # "Directly Connected"
    /\ \E k \in 1..Len(result.path) :
          result.path[k].device = result.path[Len(result.path)].next_hop

\* C25: "Routing loop detected" is returned only when the chosen next hop
\* leads to a device already visited; a simulation that stops on a connected
\* route at a device other than the destination is not reported as a loop
C25_LoopOnlyOnRevisit ==
    Returned /\ ErrorWith("Routing loop detected") => LastHopRevisits

\* the interface dict of an Interface row, as the path entries carry it
InterfaceDict(i) ==
    [interface_id |-> i.id, name |-> i.name, ip_address |-> i.ip_address]

\* the path ends with a "Destination reached" entry after at least one hop
DestinationReachedAfterHop ==
    /\ Returned
    /\ result.status = "success"
    /\ Len(result.path) >= 2
    /\ "note" \in DOMAIN result.path[Len(result.path)]
    /\ result.path[Len(result.path)].note = "Destination reached"

\* C26: in a successful multi-hop result the ingress_interface of the final
\* "Destination reached" entry is the up-interface of the destination device
\* whose ip_address is the gateway of the route of the preceding hop, and the
\* preceding hop carries that interface as next_hop_ingress
C26_FinalIngressIsGatewayInterface ==
    DestinationReachedAfterHop =>
        LET n == Len(result.path)
            final == result.path[n]
            preceding == result.path[n - 1]
        IN  /\ final.ingress_interface # None
            /\ \E k \in 1..Len(interfaces) :
                  /\ interfaces[k].status = "up"
                  /\ interfaces[k].device_id = final.device_id
                  /\ interfaces[k].ip_address = preceding.route.gateway
                  /\ final.ingress_interface = InterfaceDict(interfaces[k])
            /\ "next_hop_ingress" \in DOMAIN preceding
            /\ preceding.next_hop_ingress = final.ingress_interface

\* the two dicts agree on the key: both lack it or both carry the same value
SameField(a, b, key) ==
    /\ key \in DOMAIN a <=> key \in DOMAIN b
    /\ key \in DOMAIN a => a[key] = b[key]

\* the result dict records a source NAT
SourceNatApplied(value) ==
    /\ "nat_applied" \in DOMAIN value
    /\ value.nat_applied.source

IngestFailed ==
    /\ lastOp'.op \in {"ingest_interface_data", "ingest_route_data",
                       "ingest_nat_mapping"}
    /\ lastOp'.outcome = "ValidationError"

\* C28: an ingestion call that fails with ValidationError leaves the store
\* exactly as it was before the call
C28_FailedIngestChangesNothing ==
    [][IngestFailed => UNCHANGED <<devices, interfaces, routes, nat_mappings>>]_vars

\* the part of C28 about ingest_interface_data
FailedInterfaceIngestChangesNothing ==
    [][IngestFailed /\ lastOp'.op = "ingest_interface_data"
          => UNCHANGED <<devices, interfaces, routes, nat_mappings>>]_vars

DeletedWithSuccess ==
    /\ firewall_ret # None
    /\ firewall_ret.op = "delete_ip_object_with_dependencies"
    /\ firewall_ret.value.success

\* the uid of the IP object the identifier named when the firewall was built
UidOf(identifier) ==
    (CHOOSE o \in Range(MockIPObjects) :
        o.uid = identifier \/ o.name = identifier).uid

\* the IP object is gone and no group or rule refers to it
DeletedAndUnreferenced ==
    LET uid == UidOf(firewall_ret.args[1]) IN
    /\ \A key \in DOMAIN firewall.mock_ip_objects :
          firewall.mock_ip_objects[key].uid # uid
    /\ \A key \in DOMAIN firewall.mock_groups :
          uid \notin Range(firewall.mock_groups[key].members)
    /\ \A key \in DOMAIN firewall.mock_rules :
          /\ uid \notin Range(firewall.mock_rules[key].source)
          /\ uid \notin Range(firewall.mock_rules[key].destination)

\* no group that referred to the IP object is left without members, and no
\* rule that referred to it is left with an empty source or destination
EmptiedDependentsDeleted ==
    /\ \A g \in Range(firewall_ret.value.groups_modified) :
          g \in DOMAIN firewall.mock_groups =>
              Len(firewall.mock_groups[g].members) > 0
    /\ \A r \in Range(firewall_ret.value.rules_modified) :
          r \in DOMAIN firewall.mock_rules =>
              /\ Len(firewall.mock_rules[r].source) > 0
              /\ Len(firewall.mock_rules[r].destination) > 0

\* C30: after delete_ip_object_with_dependencies on a connected TestFirewall
\* returns success, the IP object no longer exists, no remaining group or
\* rule refers to it, and every group it left without members and every rule
\* it left with an empty source or destination list has been deleted
C30_DeleteCleansDependencies ==
    DeletedWithSuccess => DeletedAndUnreferenced /\ EmptiedDependentsDeleted

\* the part of C30 about the IP object and the references to it
DeleteRemovesObjectAndReferences ==
    DeletedWithSuccess => DeletedAndUnreferenced

====
